---- MODULE Spec2Model ----
(***************************************************************************)
(* Verification model of the well-fed-wiz nutrition-coaching application:   *)
(* the backend tables with their row-level-security policies and check      *)
(* constraints (supabase/migrations), and the browser components that call  *)
(* them (src/components, src/pages).                                        *)
(*                                                                          *)
(* Tables are functions from row ids to rows, or sequences of rows in       *)
(* insertion order.  Rows are projected to the columns that a policy, a     *)
(* constraint or a handler reads or writes.  Every backend call of a        *)
(* handler may return an error (network, server); the outcome is an input   *)
(* of the action.  Weights are counted in tenths of a kilogram and dates in *)
(* days.                                                                    *)
(***************************************************************************)
EXTENDS Integers, Sequences, FiniteSets, TLC

\* ------------------------------------------------------------------------
\* Bounds
\* ------------------------------------------------------------------------
MaxDate == 2
MaxAssign == 1
MaxWeights == 2
MaxRecords == 3
MaxLogs == 2
MaxChannels == 2
MaxMessages == 2
MaxMeals == 1

\* ------------------------------------------------------------------------
\* Users and roles (auth.users, public.user_roles)
\* ------------------------------------------------------------------------
Clients == {"c1", "c2"}
Admins == {"a1"}
Users == Clients \cup Admins
\* The client whose browser session is modelled, and the nutritionist's.
clientId == "c1"
adminId == "a1"
NULL == "null"

\* ------------------------------------------------------------------------
\* Appointments: value domains
\* ------------------------------------------------------------------------
\* Every request of the handlers is keyed by the row id (.eq("id", id)), so
\* appointment rows do not interact; the workflow of one row is modelled.
ApptIds == {1}
Dates == 1..MaxDate
TIME_SLOTS == {"09:00"}
StatusValues == {"pending", "confirmed", "cancelled", "completed"}
\* What a request may try to store in the status column.
StatusInputs == StatusValues \cup {"archived"}

VARIABLES
  user_roles,            \* public.user_roles: set of [user_id, role]
  appointments,          \* public.appointments: id -> row
  lastError,             \* error of the last step's backend calls, or ""
  toast,                 \* the notification the last handler showed
  mail,                  \* what became of the last step's notification mail
  listAppointments,      \* AppointmentsList.appointments (client session)
  selectedAppointment,   \* AppointmentsList.selectedAppointment
  rescheduleDialogOpen,  \* AppointmentsList.rescheduleDialogOpen
  bookingOpen,           \* ClientDashboard.bookingOpen
  adminAppointments,     \* AdminAppointments.appointments (admin session)
  adminSelected,         \* AdminAppointments.selectedAppointment
  callback,              \* the last handler ran its success/refresh callback
  client_meal_plans,     \* public.client_meal_plans: id -> row
  assignOpen,            \* AdminDashboard.assignOpen
  profiles,              \* public.profiles: user id -> row
  weight_history,        \* public.weight_history: rows in insertion order
  showOnboarding,        \* ClientDashboard.showOnboarding
  step,                  \* ClientOnboarding.step
  data,                  \* ClientOnboarding.data
  targetWeight,          \* WeightJourneyGraph prop (profile.target_weight_kg)
  weightHistory,         \* WeightJourneyGraph.weightHistory
  trendAnalysis,         \* WeightJourneyGraph: value of calculateTrendAnalysis()
  addDialogOpen,         \* WeightJourneyGraph.addDialogOpen
  dashboardWeightHistory, \* ClientDashboard.weightHistory
  badgesStartWeight,     \* AchievementBadges prop startWeight
  achievements,          \* AchievementBadges.achievements
  meal_plans,            \* public.meal_plans: id -> row
  meal_plan_days,        \* public.meal_plan_days with their meal_plan_meals
  editorOpen,            \* MealPlanEditor prop open
  planId,                \* MealPlanEditor prop planId (0: new plan)
  title,                 \* MealPlanEditor.title
  durationDays,          \* MealPlanEditor.durationDays
  days,                  \* MealPlanEditor.days
  currentDay,            \* MealPlanEditor.currentDay
  meal_logs,             \* public.meal_logs: rows in insertion order
  today,                 \* the calendar date
  timeZone,              \* the browser's offset from UTC: "west", "utc", "east"
  startDate,             \* client_meal_plans.start_date of the active plan
  todaysMeals,           \* TodaysMealPlan.todaysMeals
  completedMeals,        \* TodaysMealPlan.completedMeals
  planCompletedMeals,    \* ClientMealPlans.completedMeals
  planCurrentDay,        \* ClientMealPlans.currentDay
  messages,              \* public.messages: rows in insertion order
  user,                  \* AuthContext.user of the browser session
  mounted,               \* a ClientMessages component is mounted
  channels,              \* channels registered in the realtime client
  messagesList,          \* ClientMessages.messages
  actor,                 \* who sent the last direct request
  actorIsAdmin,          \* ... and whether they held the admin role then
  touched                \* owners of the rows that request returned or wrote

apptVars == <<appointments, listAppointments, selectedAppointment,
              rescheduleDialogOpen, bookingOpen, adminAppointments,
              adminSelected>>
assignVars == <<client_meal_plans, assignOpen>>
weightVars == <<profiles, weight_history, showOnboarding, step, data,
                targetWeight, weightHistory, trendAnalysis, addDialogOpen,
                dashboardWeightHistory, badgesStartWeight, achievements>>
achieveVars == <<dashboardWeightHistory, badgesStartWeight, achievements>>
planVars == <<meal_plans, meal_plan_days, editorOpen, planId, title, currentDay,
              durationDays, days>>
mealVars == <<meal_logs, today, timeZone, startDate, todaysMeals,
              completedMeals, planCompletedMeals, planCurrentDay>>
msgVars == <<messages, user, mounted, channels, messagesList>>
rlsVars == <<actor, actorIsAdmin, touched>>
restVars == <<weightVars, planVars, mealVars, msgVars, rlsVars>>
vars == <<user_roles, lastError, toast, mail, callback, apptVars, assignVars,
          restVars>>


\* ------------------------------------------------------------------------
\* Roles
\* ------------------------------------------------------------------------
has_role(user_id, role) ==
  [user_id |-> user_id, role |-> role] \in user_roles

\* policy "Users can insert own role": with check (auth.uid() = user_id)
UsersCanInsertOwnRole(uid, row) == uid = row.user_id

\* ------------------------------------------------------------------------
\* public.appointments: constraint and policies
\* ------------------------------------------------------------------------
\* a status column without its constraint
StatusCheckLax(row) == TRUE
\* check (status in ('pending', 'confirmed', 'cancelled', 'completed'))
StatusCheck(row) == row.status \in StatusValues

\* "Clients can view own appointments": using (auth.uid() = client_id)
ClientsCanViewOwnAppointments(uid, row) == uid = row.client_id
\* "Admins can view all appointments": using (has_role(auth.uid(), 'admin'))
AdminsCanViewAllAppointments(uid, row) == has_role(uid, "admin")
\* "Clients can create own appointments": with check (auth.uid() = client_id)
ClientsCanCreateOwnAppointments(uid, row) == uid = row.client_id
\* an update policy without the condition on the status
ClientsCanUpdateAnyOwnAppointments(uid, row) == uid = row.client_id
\* "Clients can update own pending or confirmed appointments":
\*   using (auth.uid() = client_id AND status IN ('pending', 'confirmed'))
ClientsCanUpdateOwnPendingOrConfirmedAppointments(uid, row) ==
  /\ uid = row.client_id
  /\ row.status \in {"pending", "confirmed"}
\* "Admins can update all appointments": using (has_role(auth.uid(), 'admin'))
AdminsCanUpdateAllAppointments(uid, row) == has_role(uid, "admin")
\* "Admins can delete all appointments": using (has_role(auth.uid(), 'admin'))
AdminsCanDeleteAllAppointments(uid, row) == has_role(uid, "admin")

\* Permissive policies of one command are OR-ed.
AppointmentSelectPolicy(uid, row) ==
  ClientsCanViewOwnAppointments(uid, row) \/ AdminsCanViewAllAppointments(uid, row)
AppointmentInsertCheck(uid, row) == ClientsCanCreateOwnAppointments(uid, row)
AppointmentUpdateUsing(uid, row) ==
  \/ ClientsCanUpdateOwnPendingOrConfirmedAppointments(uid, row)
  \/ AdminsCanUpdateAllAppointments(uid, row)
\* Neither update policy has a WITH CHECK clause, so its USING expression is
\* also applied to the new row; a new row that fails it aborts the command.
AppointmentUpdateCheck(uid, row) ==
  \/ ClientsCanUpdateOwnPendingOrConfirmedAppointments(uid, row)
  \/ AdminsCanUpdateAllAppointments(uid, row)
AppointmentDeleteUsing(uid, row) == AdminsCanDeleteAllAppointments(uid, row)

\* A patch is a function from a subset of the columns to new values.
ApplyPatch(row, patch) ==
  [c \in DOMAIN row |-> IF c \in DOMAIN patch THEN patch[c] ELSE row[c]]

\* Rows an UPDATE ... WHERE id = ... of user uid operates on.
AppointmentUpdateTargets(uid, ids) ==
  {i \in ids \cap DOMAIN appointments :
     /\ AppointmentSelectPolicy(uid, appointments[i])
     /\ AppointmentUpdateUsing(uid, appointments[i])}

\* Result of supabase.from("appointments").update(patch).eq("id", ...):
\* the error (or "") and the table afterwards.
AppointmentUpdate(uid, ids, patch) ==
  LET targets == AppointmentUpdateTargets(uid, ids)
      new(i) == ApplyPatch(appointments[i], patch)
  IN  IF \E i \in targets : ~AppointmentUpdateCheck(uid, new(i))
        THEN [error |-> "row-level security", table |-> appointments,
              matched |-> {}]
      ELSE IF \E i \in targets : ~StatusCheck(new(i))
        THEN [error |-> "check constraint", table |-> appointments,
              matched |-> {}]
      ELSE [error |-> "",
            table |-> [i \in DOMAIN appointments |->
                         IF i \in targets THEN new(i) ELSE appointments[i]],
            matched |-> targets]

FreshAppointmentId == CHOOSE i \in ApptIds \ DOMAIN appointments : TRUE

\* Result of supabase.from("appointments").insert(row)
AppointmentInsert(uid, row) ==
  IF ~AppointmentInsertCheck(uid, row)
    THEN [error |-> "row-level security", table |-> appointments]
  ELSE IF ~StatusCheck(row)
    THEN [error |-> "check constraint", table |-> appointments]
  ELSE [error |-> "",
        table |-> [i \in DOMAIN appointments \cup {FreshAppointmentId} |->
                     IF i = FreshAppointmentId THEN row ELSE appointments[i]]]

\* Result of supabase.from("appointments").delete().eq("id", ...)
AppointmentDelete(uid, ids) ==
  LET targets == {i \in ids \cap DOMAIN appointments :
                    /\ AppointmentSelectPolicy(uid, appointments[i])
                    /\ AppointmentDeleteUsing(uid, appointments[i])}
  IN  [error |-> "",
       table |-> [i \in DOMAIN appointments \ targets |-> appointments[i]],
       matched |-> targets]

\* Rows of table tbl a SELECT of user uid returns.
AppointmentSelect(tbl, uid) ==
  {i \in DOMAIN tbl : AppointmentSelectPolicy(uid, tbl[i])}

\* A backend call that did not reach the database.
NetworkError == "network"
NoError == ""
NoToast == "none"
NoMail == "none"
NoDate == 0

\* ------------------------------------------------------------------------
\* Direct requests: any signed-in user can send any query with their token;
\* only the policies and constraints stand between the request and the table
\* ------------------------------------------------------------------------
StatusPatches == {[status |-> st] : st \in StatusInputs}
OwnerPatches == {[client_id |-> u] : u \in Users}
DatePatches == {[appointment_date |-> d] : d \in Dates}

UIUnchanged ==
  UNCHANGED <<listAppointments, selectedAppointment, rescheduleDialogOpen,
              bookingOpen, adminAppointments, adminSelected>>

ApiUpdateAppointment(u, id, patch) ==
  LET r == AppointmentUpdate(u, {id}, patch)
  IN  /\ appointments' = r.table
      /\ lastError' = r.error
      /\ toast' = NoToast
      /\ mail' = NoMail
      /\ callback' = FALSE
      /\ UNCHANGED <<user_roles, assignVars, restVars>>
      /\ UIUnchanged

\* ------------------------------------------------------------------------
\* Secondary action: looking up the recipient and sending the e-mail.
\* The whole block sits in its own try/catch that only logs, so nothing it
\* does is thrown to the handler around it.
\* ------------------------------------------------------------------------
\* The recipient is found or not, the lookup or the send throws, or the send
\* resolves (with or without an error in its result, which nobody reads).
MailOutcomes == {"sent", "skipped", "lookup throws", "send throws"}

\* the same block without its try/catch
SendNotificationUncaught(outcome) ==
  [mail |-> IF outcome \in {"sent", "skipped"} THEN outcome ELSE "failed",
   thrown |-> outcome \in {"lookup throws", "send throws"}]
\* the block as written: what it throws is caught and logged
SendNotification(outcome) ==
  [mail |-> IF outcome \in {"sent", "skipped"} THEN outcome ELSE "failed",
   thrown |-> FALSE]

\* ------------------------------------------------------------------------
\* AppointmentsList (client session of clientId)
\* ------------------------------------------------------------------------
\* The list state keeps, of each fetched row, the status the buttons and the
\* handlers branch on.
ClientSnapshot(tbl) ==
  [i \in {j \in AppointmentSelect(tbl, clientId) :
            tbl[j].client_id = clientId} |-> tbl[i].status]

\* fetchAppointments with the table as it is when the select runs; a failed
\* select is only logged to the console and leaves the list as it was.
FetchedList(ok, tbl) == IF ok THEN ClientSnapshot(tbl) ELSE listAppointments
FetchError(ok) == IF ok THEN NoError ELSE NetworkError

\* useEffect([clientId, refresh]) -> fetchAppointments()
fetchAppointments(ok) ==
  /\ listAppointments' = FetchedList(ok, appointments)
  /\ lastError' = FetchError(ok)
  /\ toast' = NoToast
  /\ mail' = NoMail
  /\ callback' = FALSE
  /\ UNCHANGED <<assignVars, restVars, user_roles, appointments, selectedAppointment,
                 rescheduleDialogOpen, bookingOpen, adminAppointments,
                 adminSelected>>

\* The Reschedule and Cancel buttons are rendered for listed rows whose
\* (fetched) status is pending or confirmed.
HasButtons(id) ==
  /\ id \in DOMAIN listAppointments
  /\ listAppointments[id] \in {"pending", "confirmed"}

\* The update request of a handler: net = FALSE when it fails before the
\* database runs it.
UpdateRequest(uid, id, patch, net) ==
  IF net THEN AppointmentUpdate(uid, {id}, patch)
  ELSE [error |-> NetworkError, table |-> appointments, matched |-> {}]

handleCancel(id, net, fetchOk) ==
  /\ HasButtons(id)
  /\ LET r == UpdateRequest(clientId, id, [status |-> "cancelled"], net)
     IN  /\ appointments' = r.table
         /\ IF r.error # NoError
              THEN /\ toast' = "Error"
                   /\ lastError' = r.error
                   /\ callback' = FALSE
                   /\ UNCHANGED listAppointments
              ELSE /\ toast' = "Appointment Cancelled"
                   /\ callback' = TRUE
                   /\ lastError' = FetchError(fetchOk)
                   /\ listAppointments' = FetchedList(fetchOk, r.table)
  /\ mail' = NoMail
  /\ UNCHANGED <<assignVars, restVars, user_roles, selectedAppointment, rescheduleDialogOpen,
                 bookingOpen, adminAppointments, adminSelected>>

NoSelection == [id |-> 0, status |-> ""]

handleRescheduleOpen(id) ==
  /\ HasButtons(id)
  /\ selectedAppointment' = [id |-> id, status |-> listAppointments[id]]
  /\ rescheduleDialogOpen' = TRUE
  /\ lastError' = NoError
  /\ toast' = NoToast
  /\ mail' = NoMail
  /\ callback' = FALSE
  /\ UNCHANGED <<assignVars, restVars, user_roles, appointments, listAppointments,
                 bookingOpen, adminAppointments, adminSelected>>

\* Dialog onOpenChange(false): the dialog closes, the selection stays.
closeRescheduleDialog ==
  /\ rescheduleDialogOpen
  /\ rescheduleDialogOpen' = FALSE
  /\ lastError' = NoError
  /\ toast' = NoToast
  /\ mail' = NoMail
  /\ callback' = FALSE
  /\ UNCHANGED <<assignVars, restVars, user_roles, appointments, listAppointments,
                 selectedAppointment, bookingOpen, adminAppointments,
                 adminSelected>>

\* The patch handleReschedule sends for the selected appointment.
ReschedulePatch(newDate, newTime) ==
  [appointment_date |-> newDate,
   appointment_time |-> newTime,
   status |-> IF selectedAppointment.status = "confirmed" THEN "pending"
              ELSE selectedAppointment.status]

\* newDate (NoDate when the calendar selection was cleared) and newTime (NULL
\* when none is chosen) are the form's values at the click.
handleReschedule(newDate, newTime, net, outcome, fetchOk) ==
  /\ rescheduleDialogOpen
  /\ UNCHANGED <<assignVars, restVars, user_roles, bookingOpen, adminAppointments, adminSelected>>
  /\ IF newDate = NoDate \/ newTime = NULL \/ selectedAppointment = NoSelection
       THEN /\ toast' = "Missing Information"
            /\ lastError' = NoError
            /\ mail' = NoMail
            /\ callback' = FALSE
            /\ UNCHANGED <<appointments, listAppointments,
                           selectedAppointment, rescheduleDialogOpen>>
       ELSE LET wasConfirmed == selectedAppointment.status = "confirmed"
                r == UpdateRequest(clientId, selectedAppointment.id,
                                   ReschedulePatch(newDate, newTime), net)
                n == IF wasConfirmed THEN SendNotification(outcome)
                     ELSE [mail |-> NoMail, thrown |-> FALSE]
            IN  /\ appointments' = r.table
                /\ mail' = IF r.error # NoError THEN NoMail ELSE n.mail
                /\ IF r.error # NoError \/ n.thrown
                     THEN /\ toast' = "Error"
                          /\ lastError' = r.error
                          /\ callback' = FALSE
                          /\ UNCHANGED <<listAppointments,
                                         selectedAppointment,
                                         rescheduleDialogOpen>>
                     ELSE /\ toast' = "Appointment Rescheduled"
                          /\ callback' = TRUE
                          /\ rescheduleDialogOpen' = FALSE
                          /\ selectedAppointment' = NoSelection
                          /\ lastError' = FetchError(fetchOk)
                          /\ listAppointments' = FetchedList(fetchOk, r.table)

\* ------------------------------------------------------------------------
\* AppointmentBooking (client session), opened from ClientDashboard
\* ------------------------------------------------------------------------
openBooking ==
  /\ ~bookingOpen
  /\ bookingOpen' = TRUE
  /\ lastError' = NoError
  /\ toast' = NoToast
  /\ mail' = NoMail
  /\ callback' = FALSE
  /\ UNCHANGED <<assignVars, restVars, user_roles, appointments, listAppointments,
                 selectedAppointment, rescheduleDialogOpen,
                 adminAppointments, adminSelected>>

BookingRow(selectedDate, selectedTime) ==
  [client_id |-> clientId,
   appointment_date |-> selectedDate,
   appointment_time |-> selectedTime,
   status |-> "pending"]          \* the column default

InsertRequest(uid, row, net) ==
  IF net THEN AppointmentInsert(uid, row)
  ELSE [error |-> NetworkError, table |-> appointments]

\* AppointmentBooking.handleSubmit; onSuccess bumps appointmentsRefresh, which
\* makes AppointmentsList fetch again.
handleSubmit(selectedDate, selectedTime, net, outcome, fetchOk) ==
  /\ bookingOpen
  /\ DOMAIN appointments # ApptIds      \* room for the new row
  /\ UNCHANGED <<assignVars, restVars, user_roles, selectedAppointment, rescheduleDialogOpen,
                 adminAppointments, adminSelected>>
  /\ IF selectedDate = NoDate \/ selectedTime = NULL
       THEN /\ toast' = "Missing Information"
            /\ lastError' = NoError
            /\ mail' = NoMail
            /\ callback' = FALSE
            /\ UNCHANGED <<appointments, listAppointments, bookingOpen>>
       ELSE LET r == InsertRequest(clientId,
                                   BookingRow(selectedDate, selectedTime), net)
                n == SendNotification(outcome)
            IN  /\ appointments' = r.table
                /\ mail' = IF r.error # NoError THEN NoMail ELSE n.mail
                /\ IF r.error # NoError \/ n.thrown
                     THEN /\ toast' = "Error"
                          /\ lastError' = r.error
                          /\ callback' = FALSE
                          /\ UNCHANGED <<listAppointments, bookingOpen>>
                     ELSE /\ toast' = "Appointment Requested"
                          /\ callback' = TRUE
                          /\ bookingOpen' = FALSE
                          /\ lastError' = FetchError(fetchOk)
                          /\ listAppointments' = FetchedList(fetchOk, r.table)

\* ------------------------------------------------------------------------
\* AdminAppointments (admin session of adminId)
\* ------------------------------------------------------------------------
AdminSnapshot(tbl) ==
  [i \in AppointmentSelect(tbl, adminId) |-> tbl[i].status]

AdminFetchedList(ok, tbl) ==
  IF ok THEN AdminSnapshot(tbl) ELSE adminAppointments

\* AdminAppointments.fetchAppointments: a failed select is shown as a toast.
adminFetchAppointments(ok) ==
  /\ adminAppointments' = AdminFetchedList(ok, appointments)
  /\ lastError' = FetchError(ok)
  /\ toast' = IF ok THEN NoToast ELSE "Error"
  /\ mail' = NoMail
  /\ callback' = FALSE
  /\ UNCHANGED <<assignVars, restVars, user_roles, appointments, listAppointments,
                 selectedAppointment, rescheduleDialogOpen, bookingOpen,
                 adminSelected>>

\* pendingAppointments = appointments.filter(a => a.status === "pending");
\* only these carry the Confirm and Decline buttons.
pendingAppointments ==
  {i \in DOMAIN adminAppointments : adminAppointments[i] = "pending"}

handleOpenDialog(id) ==
  /\ id \in pendingAppointments
  /\ adminSelected' = id
  /\ lastError' = NoError
  /\ toast' = NoToast
  /\ mail' = NoMail
  /\ callback' = FALSE
  /\ UNCHANGED <<assignVars, restVars, user_roles, appointments, listAppointments,
                 selectedAppointment, rescheduleDialogOpen, bookingOpen,
                 adminAppointments>>

\* Dialog onOpenChange / the dialog's Cancel button
closeAdminDialog ==
  /\ adminSelected # 0
  /\ adminSelected' = 0
  /\ lastError' = NoError
  /\ toast' = NoToast
  /\ mail' = NoMail
  /\ callback' = FALSE
  /\ UNCHANGED <<assignVars, restVars, user_roles, appointments, listAppointments,
                 selectedAppointment, rescheduleDialogOpen, bookingOpen,
                 adminAppointments>>

\* handleUpdateStatus(id, status, notes): the notes column is not modelled.
handleUpdateStatus(id, status, net, fetchOk) ==
  /\ LET r == UpdateRequest(adminId, id, [status |-> status], net)
     IN  /\ appointments' = r.table
         /\ IF r.error # NoError
              THEN /\ toast' = "Error"
                   /\ lastError' = r.error
                   /\ callback' = FALSE
                   /\ UNCHANGED <<adminAppointments, adminSelected>>
              ELSE /\ toast' = "Appointment Updated"
                   /\ callback' = TRUE
                   /\ adminSelected' = 0
                   /\ lastError' = FetchError(fetchOk)
                   /\ adminAppointments' = AdminFetchedList(fetchOk, r.table)
  /\ mail' = NoMail
  /\ UNCHANGED <<assignVars, restVars, user_roles, listAppointments, selectedAppointment,
                 rescheduleDialogOpen, bookingOpen>>

\* The Decline button of a pending appointment
declineAppointment(id, net, fetchOk) ==
  /\ id \in pendingAppointments
  /\ handleUpdateStatus(id, "cancelled", net, fetchOk)

\* The dialog's Confirm Appointment button
confirmAppointment(net, fetchOk) ==
  /\ adminSelected # 0
  /\ handleUpdateStatus(adminSelected, "confirmed", net, fetchOk)

\* ------------------------------------------------------------------------
\* public.client_meal_plans and AssignMealPlan (admin session)
\* ------------------------------------------------------------------------
AssignIds == 1..MaxAssign
\* The plan whose Assign button was pressed (AdminDashboard.selectedPlanId).
mealPlanId == "plan1"

\* "Admins can create assignments": with check (has_role(auth.uid(), 'admin'))
AdminsCanCreateAssignments(uid, row) == has_role(uid, "admin")

FreshAssignId == CHOOSE i \in AssignIds \ DOMAIN client_meal_plans : TRUE

\* Result of supabase.from("client_meal_plans").insert(row)
AssignmentInsert(uid, row, net) ==
  IF ~net THEN [error |-> NetworkError, table |-> client_meal_plans]
  ELSE IF ~AdminsCanCreateAssignments(uid, row)
    THEN [error |-> "row-level security", table |-> client_meal_plans]
  ELSE [error |-> NoError,
        table |-> [i \in DOMAIN client_meal_plans \cup {FreshAssignId} |->
                     IF i = FreshAssignId THEN row
                     ELSE client_meal_plans[i]]]

AssignmentRow(selectedClientId) ==
  [client_id |-> selectedClientId, meal_plan_id |-> mealPlanId,
   assigned_by |-> adminId, status |-> "active"]

\* MealPlansList onAssign(plan.id)
openAssign ==
  /\ ~assignOpen
  /\ assignOpen' = TRUE
  /\ lastError' = NoError
  /\ toast' = NoToast
  /\ mail' = NoMail
  /\ callback' = FALSE
  /\ UNCHANGED <<user_roles, apptVars, restVars, client_meal_plans>>

\* selectedClientId is "" until a client is picked in the dialog.
handleAssign(selectedClientId, net, outcome) ==
  /\ assignOpen
  /\ DOMAIN client_meal_plans # AssignIds      \* room for the new row
  /\ UNCHANGED <<user_roles, apptVars, restVars>>
  /\ IF selectedClientId = ""
       THEN /\ toast' = "Validation Error"
            /\ lastError' = NoError
            /\ mail' = NoMail
            /\ callback' = FALSE
            /\ UNCHANGED <<client_meal_plans, assignOpen>>
       ELSE LET r == AssignmentInsert(adminId,
                                      AssignmentRow(selectedClientId), net)
                n == SendNotification(outcome)
            IN  /\ client_meal_plans' = r.table
                /\ lastError' = r.error
                /\ mail' = IF r.error # NoError THEN NoMail ELSE n.mail
                /\ IF r.error # NoError \/ n.thrown
                     THEN /\ toast' = "Error"
                          /\ callback' = FALSE
                          /\ UNCHANGED assignOpen
                     ELSE /\ toast' = "Success"
                          /\ assignOpen' = FALSE
                          /\ callback' = TRUE

\* ------------------------------------------------------------------------
\* Numbers typed into <input type="number"> fields
\* ------------------------------------------------------------------------
\* A field's text is a sequence of characters.  A parsed number is NaN or a
\* value; parseFloat's value is counted in tenths, parseInt's in units.
Digits == {"0", "1", "2", "3", "4", "5", "6", "7", "8", "9"}
DigitChars == <<"0", "1", "2", "3", "4", "5", "6", "7", "8", "9">>
DigitValue(c) == (CHOOSE i \in DOMAIN DigitChars : DigitChars[i] = c) - 1

\* The longest prefix of s made of digits
RECURSIVE DigitsPrefix(_)
DigitsPrefix(s) ==
  IF s = <<>> \/ Head(s) \notin Digits THEN <<>>
  ELSE <<Head(s)>> \o DigitsPrefix(Tail(s))

RECURSIVE DecimalValue(_)
DecimalValue(ds) ==
  IF ds = <<>> THEN 0
  ELSE DecimalValue(SubSeq(ds, 1, Len(ds) - 1)) * 10 + DigitValue(ds[Len(ds)])

NaN == [nan |-> TRUE, value |-> 0]
Number(n) == [nan |-> FALSE, value |-> n]

\* parseFloat(text): an optional sign, digits, an optional fraction; what
\* follows is ignored; NaN when no digit is found.  One decimal is kept.
parseFloat(text) ==
  LET signed == text # <<>> /\ Head(text) \in {"-", "+"}
      negative == signed /\ Head(text) = "-"
      body == IF signed THEN Tail(text) ELSE text
      int == DigitsPrefix(body)
      rest == SubSeq(body, Len(int) + 1, Len(body))
      frac == IF rest # <<>> /\ Head(rest) = "."
                THEN DigitsPrefix(Tail(rest)) ELSE <<>>
      tenth == IF frac = <<>> THEN 0 ELSE DigitValue(frac[1])
      magnitude == DecimalValue(int) * 10 + tenth
  IN  IF int = <<>> /\ frac = <<>> THEN NaN
      ELSE Number(IF negative THEN 0 - magnitude ELSE magnitude)

\* parseInt(text): an optional sign and digits; NaN when no digit is found.
parseInt(text) ==
  LET signed == text # <<>> /\ Head(text) \in {"-", "+"}
      negative == signed /\ Head(text) = "-"
      body == IF signed THEN Tail(text) ELSE text
      int == DigitsPrefix(body)
  IN  IF int = <<>> THEN NaN
      ELSE Number(IF negative THEN 0 - DecimalValue(int) ELSE DecimalValue(int))

\* !x for a parsed number: NaN and 0 are falsy.
Falsy(x) == x.nan \/ x.value = 0

\* null in a numeric field of the form state or of a row.  x || null never
\* yields 0, and the handlers only test such fields for falsiness.
NullNumber == 0
OrNull(x) == IF Falsy(x) THEN NullNumber ELSE x.value

\* Texts a number field can hold: empty (also what the browser reports for
\* text that is not a number), zero, a negative and positive numbers.
AgeTexts == {<<>>, <<"3", "0">>}
HeightTexts == {<<>>, <<"1", "7", "0">>}
WeightTexts == {<<>>, <<"0">>, <<"-", "5">>, <<"7", "0", ".", "5">>}
TargetTexts == {<<>>, <<"6", "5">>}

\* ------------------------------------------------------------------------
\* public.profiles and public.weight_history
\* ------------------------------------------------------------------------
\* "Users can update own profile": using (auth.uid() = id)
UsersCanUpdateOwnProfile(uid, id) == uid = id

\* Result of supabase.from("profiles").update(patch).eq("id", id)
ProfileUpdate(uid, id, patch, net) ==
  IF ~net THEN [error |-> NetworkError, table |-> profiles]
  ELSE IF id \in DOMAIN profiles /\ UsersCanUpdateOwnProfile(uid, id)
    THEN [error |-> NoError,
          table |-> [profiles EXCEPT ![id] =
                       [c \in DOMAIN profiles[id] |->
                          IF c \in DOMAIN patch THEN patch[c]
                          ELSE profiles[id][c]]]]
  ELSE [error |-> NoError, table |-> profiles]

\* weight_kg NUMERIC(5,2) NOT NULL: any value below 1000 kg in magnitude.
\* The table has no other constraint on the value.
WeightKgFits(row) == row.weight_kg > -10000 /\ row.weight_kg < 10000
\* "Users can view own weight history": using (auth.uid() = user_id)
UsersCanViewOwnWeightHistory(uid, row) == uid = row.user_id
\* "Admins can view all weight history": using (has_role(auth.uid(), 'admin'))
AdminsCanViewAllWeightHistory(uid, row) == has_role(uid, "admin")
\* "Users can insert own weight records": with check (auth.uid() = user_id)
UsersCanInsertOwnWeightRecords(uid, row) == uid = row.user_id

WeightSelectPolicy(uid, row) ==
  UsersCanViewOwnWeightHistory(uid, row) \/ AdminsCanViewAllWeightHistory(uid, row)

\* Result of supabase.from("weight_history").insert(row)
WeightInsert(uid, row, net) ==
  IF ~net THEN [error |-> NetworkError, table |-> weight_history]
  ELSE IF ~UsersCanInsertOwnWeightRecords(uid, row)
    THEN [error |-> "row-level security", table |-> weight_history]
  ELSE IF ~WeightKgFits(row)
    THEN [error |-> "numeric field overflow", table |-> weight_history]
  ELSE [error |-> NoError, table |-> Append(weight_history, row)]

\* ------------------------------------------------------------------------
\* Exact fractions (the component computes with floating-point numbers)
\* ------------------------------------------------------------------------
Abs(n) == IF n < 0 THEN 0 - n ELSE n
Max(a, b) == IF a >= b THEN a ELSE b

RECURSIVE GCD(_, _)
GCD(a, b) == IF b = 0 THEN a ELSE GCD(b, a % b)

\* n / d in lowest terms with a positive denominator (d # 0)
Fraction(n, d) ==
  LET g == GCD(Abs(n), Abs(d))
      s == IF d < 0 THEN -1 ELSE 1
  IN  [num |-> (s * n) \div g, den |-> (s * d) \div g]
\* (a / b) / (c / d)
FractionDiv(x, y) == Fraction(x.num * y.den, x.den * y.num)
FractionAbs(x) == [num |-> Abs(x.num), den |-> x.den]
\* null where a number is expected
NullFraction == [num |-> 0, den |-> 0]

\* ------------------------------------------------------------------------
\* WeightJourneyGraph (client session)
\* ------------------------------------------------------------------------
NoTrend ==
  [avgWeeklyChange |-> NullFraction, weeksToTarget |-> NullFraction,
   isOnTrack |-> NULL]

\* rate measured from the record before the last one
calculateTrendAnalysisFromPrevious(history, target) ==
  IF Len(history) < 2 THEN NoTrend
  ELSE
    LET currentWeight == history[Len(history)].weight_kg
        startWeight == history[Len(history) - 1].weight_kg
        weightChange == currentWeight - startWeight
        daysDiff == Max(1, history[Len(history)].recorded_date
                             - history[Len(history) - 1].recorded_date)
        avgWeeklyChange ==
          FractionDiv(Fraction(weightChange, 1), Fraction(daysDiff, 7))
    IN  [avgWeeklyChange |-> avgWeeklyChange,
         weeksToTarget |->
           IF target # NullNumber /\ avgWeeklyChange.num # 0
             THEN FractionAbs(FractionDiv(Fraction(currentWeight - target, 1),
                                          avgWeeklyChange))
           ELSE NullFraction,
         isOnTrack |-> NULL]
\* calculateTrendAnalysis() for the fetched history and the targetWeight prop.
\* projectedDate (today plus weeksToTarget weeks) is not kept.
calculateTrendAnalysis(history, target) ==
  IF Len(history) < 2 THEN NoTrend
  ELSE
    LET currentWeight == history[Len(history)].weight_kg
        startWeight == history[1].weight_kg
        weightChange == currentWeight - startWeight
        isLosing == weightChange < 0
        firstDate == history[1].recorded_date
        lastDate == history[Len(history)].recorded_date
        daysDiff == Max(1, lastDate - firstDate)
        weeksDiff == Fraction(daysDiff, 7)
        avgWeeklyChange ==
          IF weeksDiff.num > 0
            THEN FractionDiv(Fraction(weightChange, 1), weeksDiff)
          ELSE Fraction(0, 1)
        remainingWeight == currentWeight - target
    IN  [avgWeeklyChange |-> avgWeeklyChange,
         weeksToTarget |->
           IF target # NullNumber /\ avgWeeklyChange.num # 0
             THEN FractionAbs(FractionDiv(Fraction(remainingWeight, 1),
                                          avgWeeklyChange))
           ELSE NullFraction,
         isOnTrack |->
           IF target = NullNumber THEN NULL
           ELSE IF (isLosing /\ currentWeight > target)
                     \/ (~isLosing /\ currentWeight < target)
             THEN "true" ELSE "false"]

\* ------------------------------------------------------------------------
\* AchievementBadges.calculateAchievements
\* ------------------------------------------------------------------------
\* new Date(record.recorded_date) is midnight UTC of the stored date;
\* setHours(0, 0, 0, 0) moves it to the local midnight before it, which west
\* of UTC is the midnight of the day before.
LocalMidnightOfRecord(recorded_date) ==
  IF timeZone = "west" THEN recorded_date - 1 ELSE recorded_date

\* [...weightHistory].sort((a, b) => date(b) - date(a)): latest first, records
\* of one date in the order they had
RECURSIVE SortLatestFirst(_, _)
SortLatestFirst(history, rest) ==
  IF rest = {} THEN <<>>
  ELSE LET i == CHOOSE i \in rest :
                  \A j \in rest :
                    \/ history[j].recorded_date < history[i].recorded_date
                    \/ /\ history[j].recorded_date = history[i].recorded_date
                       /\ i <= j
       IN  <<history[i]>> \o SortLatestFirst(history, rest \ {i})

\* The loop of calculateStreak from the k-th record of sortedHistory on:
\* daysDiff is counted from currentDate, which starts as today and becomes
\* the date of each record that is counted.
RECURSIVE StreakLoop(_, _, _, _)
StreakLoop(sortedHistory, k, streak, currentDate) ==
  IF k > Len(sortedHistory) THEN streak
  ELSE LET recordDate == LocalMidnightOfRecord(sortedHistory[k].recorded_date)
           daysDiff == currentDate - recordDate
       IN  IF daysDiff = streak
             THEN StreakLoop(sortedHistory, k + 1, streak + 1, recordDate)
           ELSE streak

calculateStreak(history) ==
  StreakLoop(SortLatestFirst(history, DOMAIN history), 1, 0, today)

\* The entries of allAchievements that are unlocked by a threshold, as
\* [id, unlocked]; weights are in tenths of a kilogram.  The two goal entries
\* (target-reached, halfway-there) compare against the target weight and are
\* not thresholds of this table.
calculateAchievements(history, start) ==
  IF Len(history) = 0 THEN {}
  ELSE LET currentWeight == history[Len(history)].weight_kg
           firstWeight == IF start # NullNumber THEN start
                          ELSE history[1].weight_kg
           totalChange == Abs(currentWeight - firstWeight)
           streak == calculateStreak(history)
           totalLogs == Len(history)
       IN  {[id |-> "first-log", unlocked |-> totalLogs >= 1],
            [id |-> "1kg-milestone", unlocked |-> totalChange >= 10],
            [id |-> "5kg-milestone", unlocked |-> totalChange >= 50],
            [id |-> "10kg-milestone", unlocked |-> totalChange >= 100],
            [id |-> "15kg-milestone", unlocked |-> totalChange >= 150],
            [id |-> "3-day-streak", unlocked |-> streak >= 3],
            [id |-> "7-day-streak", unlocked |-> streak >= 7],
            [id |-> "30-day-streak", unlocked |-> streak >= 30],
            [id |-> "100-day-streak", unlocked |-> streak >= 100],
            [id |-> "10-logs", unlocked |-> totalLogs >= 10],
            [id |-> "50-logs", unlocked |-> totalLogs >= 50]}

\* Rows of tbl the select of fetchWeightHistory returns for clientId, as
\* [recorded_date, weight_kg]
OwnWeightRows(tbl) ==
  {i \in DOMAIN tbl : WeightSelectPolicy(clientId, tbl[i])
                        /\ tbl[i].user_id = clientId}

\* .order("recorded_date", { ascending: true }): the rows in an order of
\* ascending date; the order among rows of one date is the database's choice.
RECURSIVE OrdersByRecordedDate(_, _)
OrdersByRecordedDate(tbl, rows) ==
  IF rows = {} THEN {<<>>}
  ELSE UNION {{<<[recorded_date |-> tbl[i].recorded_date,
                  weight_kg |-> tbl[i].weight_kg]>> \o rest :
                 rest \in OrdersByRecordedDate(tbl, rows \ {i})} :
              i \in {j \in rows :
                       \A k \in rows :
                         tbl[j].recorded_date <= tbl[k].recorded_date}}

WeightOrders(tbl) == OrdersByRecordedDate(tbl, OwnWeightRows(tbl))

notWeightVars ==
  <<user_roles, apptVars, assignVars, planVars, mealVars, msgVars, rlsVars>>

\* fetchWeightHistory: a failed select is shown as a toast.
fetchWeightHistory(ok) ==
  /\ ~showOnboarding
  /\ IF ok
       THEN /\ weightHistory' \in WeightOrders(weight_history)
            /\ trendAnalysis' = calculateTrendAnalysis(weightHistory', targetWeight)
       ELSE UNCHANGED <<weightHistory, trendAnalysis>>
  /\ lastError' = IF ok THEN NoError ELSE NetworkError
  /\ toast' = IF ok THEN NoToast ELSE "Error"
  /\ mail' = NoMail
  /\ callback' = FALSE
  /\ UNCHANGED <<profiles, weight_history, showOnboarding, step, data,
                 targetWeight, addDialogOpen>>
  /\ UNCHANGED achieveVars
  /\ UNCHANGED notWeightVars

\* ClientDashboard.fetchWeightHistory: the same select; a failure is only
\* written to the console.  AchievementBadges recalculates when its
\* weightHistory prop changes.  The dashboard starts this request when the
\* user is set and from onWeightAdded, and does not wait for it: it
\* completes as a step of its own.
dashboardFetchWeightHistory(ok) ==
  /\ IF ok
       THEN /\ dashboardWeightHistory' \in WeightOrders(weight_history)
            /\ achievements' =
                 calculateAchievements(dashboardWeightHistory',
                                       badgesStartWeight)
       ELSE UNCHANGED <<dashboardWeightHistory, achievements>>
  /\ lastError' = IF ok THEN NoError ELSE NetworkError
  /\ toast' = NoToast
  /\ mail' = NoMail
  /\ callback' = FALSE
  /\ UNCHANGED <<profiles, weight_history, showOnboarding, step, data,
                 targetWeight, weightHistory, trendAnalysis, addDialogOpen,
                 badgesStartWeight>>
  /\ UNCHANGED notWeightVars

\* The Log Weight button; the onboarding overlay covers it while shown.
openAddDialog ==
  /\ ~showOnboarding
  /\ ~addDialogOpen
  /\ addDialogOpen' = TRUE
  /\ lastError' = NoError
  /\ toast' = NoToast
  /\ mail' = NoMail
  /\ callback' = FALSE
  /\ UNCHANGED <<profiles, weight_history, showOnboarding, step, data,
                 targetWeight, weightHistory, trendAnalysis>>
  /\ UNCHANGED achieveVars
  /\ UNCHANGED notWeightVars

\* handleAddWeight with the dialog's field text and picked date at the click
handleAddWeight(newWeight, recordDate, net, fetchOk) ==
  /\ addDialogOpen
  /\ Len(weight_history) < MaxWeights
  /\ mail' = NoMail
  /\ UNCHANGED <<profiles, showOnboarding, step, data, targetWeight>>
  /\ UNCHANGED achieveVars
  /\ UNCHANGED notWeightVars
  /\ LET weight == parseFloat(newWeight)
     IN  IF Falsy(weight) \/ weight.value <= 0
           THEN /\ toast' = "Invalid Weight"
                /\ lastError' = NoError
                /\ callback' = FALSE
                /\ UNCHANGED <<weight_history, weightHistory, trendAnalysis,
                               addDialogOpen>>
           ELSE LET r == WeightInsert(clientId,
                                      [user_id |-> clientId,
                                       weight_kg |-> weight.value,
                                       recorded_date |-> recordDate], net)
                IN  /\ weight_history' = r.table
                    /\ IF r.error # NoError
                         THEN /\ toast' = "Error"
                              /\ lastError' = r.error
                              /\ callback' = FALSE
                              /\ UNCHANGED <<weightHistory, trendAnalysis,
                                             addDialogOpen>>
                         ELSE /\ addDialogOpen' = FALSE
                              /\ callback' = TRUE
                              /\ lastError' = IF fetchOk THEN NoError ELSE NetworkError
                              /\ toast' = IF fetchOk THEN "Weight Recorded!"
                                          ELSE "Error"
                              /\ IF fetchOk
                                   THEN /\ weightHistory' \in WeightOrders(r.table)
                                        /\ trendAnalysis' =
                                             calculateTrendAnalysis(weightHistory',
                                                                    targetWeight)
                                   ELSE UNCHANGED <<weightHistory, trendAnalysis>>

\* ------------------------------------------------------------------------
\* ClientDashboard.fetchProfile and ClientOnboarding (client session)
\* ------------------------------------------------------------------------
NoData ==
  [age |-> NullNumber, height_cm |-> NullNumber,
   current_weight_kg |-> NullNumber, target_weight_kg |-> NullNumber]

\* What fetchProfile leaves in the dashboard when the select returns tbl.
FetchedTarget(ok, tbl) ==
  IF ok THEN tbl[clientId].target_weight_kg ELSE targetWeight
FetchedShowOnboarding(ok, tbl, shown) ==
  IF ok /\ ~tbl[clientId].onboarding_completed THEN TRUE ELSE shown
FetchedStartWeight(ok, tbl) ==
  IF ok THEN tbl[clientId].current_weight_kg ELSE badgesStartWeight

fetchProfile(ok) ==
  /\ targetWeight' = FetchedTarget(ok, profiles)
  /\ showOnboarding' = FetchedShowOnboarding(ok, profiles, showOnboarding)
  /\ trendAnalysis' = calculateTrendAnalysis(weightHistory, targetWeight')
  /\ badgesStartWeight' = FetchedStartWeight(ok, profiles)
  /\ achievements' = calculateAchievements(dashboardWeightHistory,
                                           badgesStartWeight')
  /\ lastError' = IF ok THEN NoError ELSE NetworkError
  /\ toast' = IF ok THEN NoToast ELSE "Error"
  /\ mail' = NoMail
  /\ callback' = FALSE
  /\ UNCHANGED <<profiles, weight_history, step, data, weightHistory,
                 addDialogOpen, dashboardWeightHistory>>
  /\ UNCHANGED notWeightVars

\* The form is rendered on the step whose showForm is true.
FormStep == 1
LastStep == 2

\* onChange of a form field: parseInt(value) || null for the age,
\* parseFloat(value) || null for the others.
setData(field, text) ==
  /\ showOnboarding
  /\ step = FormStep
  /\ data' = [data EXCEPT ![field] =
                IF field = "age" THEN OrNull(parseInt(text))
                ELSE OrNull(parseFloat(text))]
  /\ data' # data
  /\ lastError' = NoError
  /\ toast' = NoToast
  /\ mail' = NoMail
  /\ callback' = FALSE
  /\ UNCHANGED <<profiles, weight_history, showOnboarding, step, targetWeight,
                 weightHistory, trendAnalysis, addDialogOpen, achieveVars>>
  /\ UNCHANGED notWeightVars

\* The Back button
handleBack ==
  /\ showOnboarding
  /\ step > 0
  /\ step' = step - 1
  /\ lastError' = NoError
  /\ toast' = NoToast
  /\ mail' = NoMail
  /\ callback' = FALSE
  /\ UNCHANGED <<profiles, weight_history, showOnboarding, data, targetWeight,
                 weightHistory, trendAnalysis, addDialogOpen, achieveVars>>
  /\ UNCHANGED notWeightVars

\* handleComplete: the profile update, then the initial weight record, then
\* onComplete (hide the overlay, fetchProfile).  The overlay unmounts with
\* its state.
handleComplete(profileNet, weightNet, fetchOk) ==
  /\ Len(weight_history) < MaxWeights
  /\ mail' = NoMail
  /\ UNCHANGED <<weightHistory, addDialogOpen, dashboardWeightHistory>>
  /\ UNCHANGED notWeightVars
  /\ IF \E f \in DOMAIN data : data[f] = NullNumber
       THEN /\ toast' = "Missing Information"
            /\ lastError' = NoError
            /\ callback' = FALSE
            /\ UNCHANGED <<profiles, weight_history, showOnboarding, step,
                           data, targetWeight, trendAnalysis,
                           badgesStartWeight,
                           achievements>>
       ELSE
         LET p == ProfileUpdate(clientId, clientId,
                                [age |-> data.age,
                                 height_cm |-> data.height_cm,
                                 current_weight_kg |-> data.current_weight_kg,
                                 target_weight_kg |-> data.target_weight_kg,
                                 onboarding_completed |-> TRUE], profileNet)
             w == WeightInsert(clientId,
                               [user_id |-> clientId,
                                weight_kg |-> data.current_weight_kg,
                                recorded_date |-> today], weightNet)
         IN  /\ profiles' = p.table
             /\ IF p.error # NoError
                  THEN /\ toast' = "Error"
                       /\ lastError' = p.error
                       /\ callback' = FALSE
                       /\ UNCHANGED <<weight_history, showOnboarding, step,
                                      data, targetWeight, trendAnalysis,
                                      badgesStartWeight, achievements>>
                  ELSE /\ weight_history' = w.table
                       /\ IF w.error # NoError
                            THEN /\ toast' = "Error"
                                 /\ lastError' = w.error
                                 /\ callback' = FALSE
                                 /\ UNCHANGED <<showOnboarding, step, data,
                                                targetWeight, trendAnalysis,
                                                badgesStartWeight, achievements>>
                            ELSE /\ callback' = TRUE
                                 /\ step' = 0
                                 /\ data' = NoData
                                 /\ lastError' = IF fetchOk THEN NoError ELSE NetworkError
                                 /\ toast' = IF fetchOk THEN "Welcome aboard!"
                                             ELSE "Error"
                                 /\ targetWeight' = FetchedTarget(fetchOk, p.table)
                                 /\ showOnboarding' =
                                      FetchedShowOnboarding(fetchOk, p.table, FALSE)
                                 /\ trendAnalysis' =
                                      calculateTrendAnalysis(weightHistory,
                                                             targetWeight')
                                 /\ badgesStartWeight' =
                                      FetchedStartWeight(fetchOk, p.table)
                                 /\ achievements' =
                                      calculateAchievements(
                                        dashboardWeightHistory, badgesStartWeight')

\* a Next button that completes from the form step already
handleNextFromFormStep(profileNet, weightNet, fetchOk) ==
  /\ showOnboarding
  /\ IF step < FormStep
       THEN /\ step' = step + 1
            /\ lastError' = NoError
            /\ toast' = NoToast
            /\ mail' = NoMail
            /\ callback' = FALSE
            /\ UNCHANGED <<profiles, weight_history, showOnboarding, data,
                           targetWeight, weightHistory, trendAnalysis,
                           addDialogOpen, achieveVars>>
            /\ UNCHANGED notWeightVars
       ELSE handleComplete(profileNet, weightNet, fetchOk)

\* The Next / Let's Go button
handleNext(profileNet, weightNet, fetchOk) ==
  /\ showOnboarding
  /\ IF step < LastStep
       THEN /\ step' = step + 1
            /\ lastError' = NoError
            /\ toast' = NoToast
            /\ mail' = NoMail
            /\ callback' = FALSE
            /\ UNCHANGED <<profiles, weight_history, showOnboarding, data,
                           targetWeight, weightHistory, trendAnalysis,
                           addDialogOpen, achieveVars>>
            /\ UNCHANGED notWeightVars
       ELSE handleComplete(profileNet, weightNet, fetchOk)

\* ------------------------------------------------------------------------
\* public.meal_plans, meal_plan_days, meal_plan_meals
\* ------------------------------------------------------------------------
\* Every request of the editor is keyed by the plan id, so plans do not
\* interact; one plan is modelled.
PlanIds == {1}
MEAL_TYPES == {"breakfast", "lunch", "dinner", "snack"}

\* "Admins can create meal plans", "Admins can update meal plans",
\* "Admins can manage meal plan days", "Admins can manage meals":
\* (has_role(auth.uid(), 'admin'))
AdminsCanManageMealPlans(uid) == has_role(uid, "admin")

\* check (meal_type in ('breakfast', 'lunch', 'dinner', 'snack'))
MealTypeCheck(meal_type) == meal_type \in MEAL_TYPES

\* The stored rows as one value: plans is meal_plans, days is meal_plan_days
\* in insertion order; the meal_plan_meals rows of a day are kept in the day
\* row they reference (on delete cascade), as the sequence of their meal_type.
StoredPlans == [plans |-> meal_plans, days |-> meal_plan_days]

FreshPlanId == CHOOSE i \in PlanIds \ DOMAIN meal_plans : TRUE

\* ------------------------------------------------------------------------
\* MealPlanEditor (admin session)
\* ------------------------------------------------------------------------
\* title.trim(): the text without leading and trailing blanks
RECURSIVE TrimStart(_)
TrimStart(s) ==
  IF s # <<>> /\ Head(s) = " " THEN TrimStart(Tail(s)) ELSE s
RECURSIVE TrimEnd(_)
TrimEnd(s) ==
  IF s # <<>> /\ s[Len(s)] = " " THEN TrimEnd(SubSeq(s, 1, Len(s) - 1)) ELSE s
Trim(s) == TrimEnd(TrimStart(s))

TitleTexts == {<<" ">>, <<"A">>, <<"B">>}
\* The first entries of the duration select [3, 5, 7, 14, 21, 30]
DurationOptions == {3, 5}
\* Day tabs clicked: the first, and one past the shortest duration
TabInputs == {1, 4}
\* Meal types picked in the Add meal select
MealTypeInputs == {"breakfast"}
\* useState(7), and the seven empty days of a new plan
DefaultDuration == 7

EmptyDays(from, to) ==
  [i \in 1..(to - from + 1) |-> [day_number |-> from + i - 1, meals |-> <<>>]]

notPlanVars ==
  <<user_roles, apptVars, assignVars, weightVars, mealVars, msgVars, rlsVars>>

\* The requests handleSave sends, in order.
RECURSIVE DayRequests(_)
DayRequests(ds) ==
  IF ds = <<>> THEN <<>>
  ELSE (IF Head(ds).meals # <<>>
          THEN <<[op |-> "insert day", day |-> Head(ds)],
                 [op |-> "insert meals", day |-> Head(ds)]>>
        ELSE <<[op |-> "insert day", day |-> Head(ds)]>>)
       \o DayRequests(Tail(ds))

NoDay == [day_number |-> 0, meals |-> <<>>]

SaveRequests ==
  (IF planId # 0
     THEN <<[op |-> "update plan", day |-> NoDay],
            [op |-> "delete days", day |-> NoDay]>>
   ELSE <<[op |-> "insert plan", day |-> NoDay]>>)
  \o DayRequests(days)

\* The plan id the day rows are written for (mealPlanId)
SavedPlanId == IF planId # 0 THEN planId ELSE FreshPlanId

\* One request against the stored rows db, sent by the admin session.
ApplyRequest(db, req) ==
  IF ~AdminsCanManageMealPlans(adminId) THEN db
  ELSE IF req.op = "update plan"
    THEN [db EXCEPT !.plans =
            [i \in DOMAIN db.plans |->
               IF i = planId
                 THEN [title |-> title, duration_days |-> durationDays]
               ELSE db.plans[i]]]
  ELSE IF req.op = "delete days"
    THEN [db EXCEPT !.days =
            SelectSeq(db.days, LAMBDA d : d.meal_plan_id # planId)]
  ELSE IF req.op = "insert plan"
    THEN [db EXCEPT !.plans =
            [i \in DOMAIN db.plans \cup {SavedPlanId} |->
               IF i = SavedPlanId
                 THEN [title |-> title, duration_days |-> durationDays]
               ELSE db.plans[i]]]
  ELSE IF req.op = "insert day"
    THEN [db EXCEPT !.days =
            Append(db.days, [meal_plan_id |-> SavedPlanId,
                             day_number |-> req.day.day_number,
                             meals |-> <<>>])]
  ELSE \* "insert meals": the rows reference the day row just inserted
       [db EXCEPT !.days[Len(db.days)].meals = req.day.meals]

\* The stored rows after the first k requests of reqs went through
RECURSIVE ApplyRequests(_, _, _)
ApplyRequests(db, reqs, k) ==
  IF k = 0 \/ reqs = <<>> THEN db
  ELSE ApplyRequests(ApplyRequest(db, Head(reqs)), Tail(reqs), k - 1)

\* handleSave sends its requests one after the other, each in a transaction
\* of its own, and stops at the first that fails.  okRequests is the number
\* of requests that go through before one fails, or the number of all.
handleSave(okRequests) ==
  /\ editorOpen
  /\ okRequests <= Len(SaveRequests)
  /\ planId = 0 => PlanIds \ DOMAIN meal_plans # {}    \* room for the new row
  /\ mail' = NoMail
  /\ UNCHANGED <<planId, title, durationDays, days, currentDay>>
  /\ UNCHANGED notPlanVars
  /\ IF Trim(title) = <<>>
       THEN /\ toast' = "Validation Error"
            /\ lastError' = NoError
            /\ callback' = FALSE
            /\ UNCHANGED <<meal_plans, meal_plan_days, editorOpen>>
       ELSE LET db == ApplyRequests(StoredPlans, SaveRequests, okRequests)
            IN  /\ meal_plans' = db.plans
                /\ meal_plan_days' = db.days
                /\ IF okRequests < Len(SaveRequests)
                     THEN /\ toast' = "Error"
                          /\ lastError' = NetworkError
                          /\ callback' = FALSE
                          /\ UNCHANGED editorOpen
                     ELSE /\ toast' = "Success"
                          /\ lastError' = NoError
                          /\ callback' = TRUE
                          /\ editorOpen' = FALSE

\* MealPlansList onCreateNew, and the effect that follows: seven empty days.
\* The other fields of the editor keep what they held.
openNewPlan ==
  /\ ~editorOpen
  /\ editorOpen' = TRUE
  /\ planId' = 0
  /\ days' = EmptyDays(1, DefaultDuration)
  /\ lastError' = NoError
  /\ toast' = NoToast
  /\ mail' = NoMail
  /\ callback' = FALSE
  /\ UNCHANGED <<meal_plans, meal_plan_days, title, durationDays, currentDay>>
  /\ UNCHANGED notPlanVars

\* Day rows of plan id in the order of day_number, as the editor keeps them
RECURSIVE SortedDays(_)
SortedDays(rows) ==
  IF rows = {} THEN <<>>
  ELSE LET first == CHOOSE r \in rows :
                      \A s \in rows : r.day_number <= s.day_number
       IN  <<first>> \o SortedDays(rows \ {first})

LoadedDays(id) ==
  SortedDays({[day_number |-> meal_plan_days[i].day_number,
               meals |-> meal_plan_days[i].meals] :
                i \in {j \in DOMAIN meal_plan_days :
                         meal_plan_days[j].meal_plan_id = id}})

\* MealPlansList onEdit(id), and the effect that follows: loadMealPlan.
\* loaded: how far loadMealPlan got ("none", "plan", "all").
openEditPlan(id, loaded) ==
  /\ ~editorOpen
  /\ id \in DOMAIN meal_plans
  /\ editorOpen' = TRUE
  /\ planId' = id
  /\ IF loaded = "none"
       THEN UNCHANGED <<title, durationDays, days>>
       ELSE /\ title' = meal_plans[id].title
            /\ durationDays' = meal_plans[id].duration_days
            /\ IF loaded = "plan" THEN UNCHANGED days
               ELSE days' = LoadedDays(id)
  /\ lastError' = IF loaded = "all" THEN NoError ELSE NetworkError
  /\ toast' = IF loaded = "all" THEN NoToast ELSE "Error"
  /\ mail' = NoMail
  /\ callback' = FALSE
  /\ UNCHANGED <<meal_plans, meal_plan_days, currentDay>>
  /\ UNCHANGED notPlanVars

\* Dialog onOpenChange(false)
closeEditor ==
  /\ editorOpen
  /\ editorOpen' = FALSE
  /\ lastError' = NoError
  /\ toast' = NoToast
  /\ mail' = NoMail
  /\ callback' = FALSE
  /\ UNCHANGED <<meal_plans, meal_plan_days, planId, title, durationDays,
                 days, currentDay>>
  /\ UNCHANGED notPlanVars

EditorStep ==
  /\ editorOpen
  /\ lastError' = NoError
  /\ toast' = NoToast
  /\ mail' = NoMail
  /\ callback' = FALSE
  /\ UNCHANGED <<meal_plans, meal_plan_days, editorOpen, planId>>
  /\ UNCHANGED notPlanVars

setTitle(text) ==
  /\ EditorStep
  /\ title' = text
  /\ title' # title
  /\ UNCHANGED <<durationDays, days, currentDay>>

\* onValueChange of the duration select
setDurationDays(newDuration) ==
  /\ EditorStep
  /\ newDuration # durationDays
  /\ durationDays' = newDuration
  /\ days' = IF newDuration > Len(days)
               THEN days \o EmptyDays(Len(days) + 1, newDuration)
             ELSE IF newDuration < Len(days)
               THEN SubSeq(days, 1, newDuration)
             ELSE days
  /\ UNCHANGED <<title, currentDay>>

\* A day tab (tabs are rendered for 1..durationDays)
setCurrentDay(day) ==
  /\ EditorStep
  /\ day \in 1..durationDays
  /\ day # currentDay
  /\ currentDay' = day
  /\ UNCHANGED <<title, durationDays, days>>

\* days.findIndex(d => d.day_number === dayNumber), 0 when there is none
DayIndex(dayNumber) ==
  IF \E i \in DOMAIN days : days[i].day_number = dayNumber
    THEN CHOOSE i \in DOMAIN days :
           /\ days[i].day_number = dayNumber
           /\ \A j \in DOMAIN days : days[j].day_number = dayNumber => i <= j
  ELSE 0

RECURSIVE MealCount(_)
MealCount(ds) ==
  IF ds = <<>> THEN 0 ELSE Len(Head(ds).meals) + MealCount(Tail(ds))

addMeal(mealType) ==
  /\ EditorStep
  /\ MealCount(days) < MaxMeals
  /\ DayIndex(currentDay) # 0
  /\ days' = [days EXCEPT ![DayIndex(currentDay)].meals = Append(@, mealType)]
  /\ UNCHANGED <<title, durationDays, currentDay>>

\* The delete button of a meal card of the current day
removeMeal(mealIndex) ==
  /\ EditorStep
  /\ DayIndex(currentDay) # 0
  /\ mealIndex \in DOMAIN days[DayIndex(currentDay)].meals
  /\ days' = [days EXCEPT ![DayIndex(currentDay)].meals =
                SubSeq(@, 1, mealIndex - 1) \o SubSeq(@, mealIndex + 1, Len(@))]
  /\ UNCHANGED <<title, durationDays, currentDay>>

\* ------------------------------------------------------------------------
\* public.meal_logs
\* ------------------------------------------------------------------------
\* a select policy without the ownership condition
UsersCanViewAnyMealLogs(uid, row) == TRUE
\* "Users can view own meal logs": using (auth.uid() = user_id)
UsersCanViewOwnMealLogs(uid, row) == uid = row.user_id
\* "Admins can view all meal logs": using (has_role(auth.uid(), 'admin'))
AdminsCanViewAllMealLogs(uid, row) == has_role(uid, "admin")
\* "Users can insert own meal logs": with check (auth.uid() = user_id)
UsersCanInsertOwnMealLogs(uid, row) == uid = row.user_id
\* "Users can update own meal logs": using (auth.uid() = user_id)
UsersCanUpdateOwnMealLogs(uid, row) == uid = row.user_id
\* "Users can delete own meal logs": using (auth.uid() = user_id)
UsersCanDeleteOwnMealLogs(uid, row) == uid = row.user_id

MealLogSelectPolicy(uid, row) ==
  UsersCanViewOwnMealLogs(uid, row) \/ AdminsCanViewAllMealLogs(uid, row)

\* Result of supabase.from("meal_logs").insert(row)
MealLogInsert(uid, row, net) ==
  IF ~net THEN [error |-> NetworkError, table |-> meal_logs]
  ELSE IF ~UsersCanInsertOwnMealLogs(uid, row)
    THEN [error |-> "row-level security", table |-> meal_logs]
  ELSE IF ~MealTypeCheck(row.meal_type)
    THEN [error |-> "check constraint", table |-> meal_logs]
  ELSE [error |-> NoError, table |-> Append(meal_logs, row)]

\* Result of supabase.from("meal_logs").delete().eq("user_id", owner)
\*   .eq("logged_date", date).eq("meal_type", type).eq("meal_name", name)
MealLogDelete(uid, owner, date, type, name, net) ==
  IF ~net THEN [error |-> NetworkError, table |-> meal_logs]
  ELSE [error |-> NoError,
        table |-> SelectSeq(meal_logs,
                    LAMBDA r : ~(/\ MealLogSelectPolicy(uid, r)
                                 /\ UsersCanDeleteOwnMealLogs(uid, r)
                                 /\ r.user_id = owner
                                 /\ r.logged_date = date
                                 /\ r.meal_type = type
                                 /\ r.meal_name = name))]

\* ------------------------------------------------------------------------
\* The client's active plan: its days and meals (meal_plan_days and
\* meal_plan_meals rows of the assigned plan)
\* ------------------------------------------------------------------------
Oats ==
  [meal_type |-> "breakfast", meal_name |-> "Oats", calories |-> 300,
   protein_grams |-> 10]
Dal ==
  [meal_type |-> "dinner", meal_name |-> "Dal", calories |-> 450,
   protein_grams |-> 20]
AssignedPlanDays ==
  <<[day_number |-> 1, meals |-> {Oats}],
    [day_number |-> 2, meals |-> {Oats, Dal}]>>
AssignedPlanDuration == Len(AssignedPlanDays)
AssignedPlanMeals == {Oats, Dal}

\* ------------------------------------------------------------------------
\* Dates in the browser
\* ------------------------------------------------------------------------
TimeZones == {"west", "east"}

\* format(new Date("yyyy-MM-dd"), "yyyy-MM-dd"): the text is read as midnight
\* UTC and written as a local date, the day before in a zone west of UTC.
FormatOfParsedDate(date) == IF timeZone = "west" THEN date - 1 ELSE date

\* ------------------------------------------------------------------------
\* The row a completion inserts (both components): the meal's name, type,
\* calories and macros (protein stands for the three macro columns)
\* ------------------------------------------------------------------------
\* a row that leaves the calories out
MealLogRowWithoutCalories(meal, date) ==
  [user_id |-> clientId, meal_name |-> meal.meal_name,
   meal_type |-> meal.meal_type, calories |-> NullNumber,
   protein_grams |-> meal.protein_grams, logged_date |-> date]
\* the row as inserted
MealLogRow(meal, date) ==
  [user_id |-> clientId, meal_name |-> meal.meal_name,
   meal_type |-> meal.meal_type, calories |-> meal.calories,
   protein_grams |-> meal.protein_grams, logged_date |-> date]

notMealVars ==
  <<user_roles, apptVars, assignVars, weightVars, planVars, msgVars, rlsVars>>

\* ------------------------------------------------------------------------
\* TodaysMealPlan (client session)
\* ------------------------------------------------------------------------
\* differenceInDays(today, startOfDay(new Date(start_date))) + 1
currentDayNumber == today - FormatOfParsedDate(startDate) + 1

\* fetchTodaysMealPlan: outside the plan's duration, or when a select fails,
\* it returns and leaves the state as it was; nothing is shown to the user.
fetchTodaysMealPlan(ok) ==
  /\ IF ok /\ currentDayNumber \in 1..AssignedPlanDuration
       THEN /\ todaysMeals' = AssignedPlanDays[currentDayNumber].meals
            /\ completedMeals' =
                 {<<meal_logs[i].meal_type, meal_logs[i].meal_name>> :
                    i \in {j \in DOMAIN meal_logs :
                             /\ MealLogSelectPolicy(clientId, meal_logs[j])
                             /\ meal_logs[j].user_id = clientId
                             /\ meal_logs[j].logged_date = today}}
       ELSE UNCHANGED <<todaysMeals, completedMeals>>
  /\ lastError' = IF ok THEN NoError ELSE NetworkError
  /\ toast' = NoToast
  /\ mail' = NoMail
  /\ callback' = FALSE
  /\ UNCHANGED <<meal_logs, today, timeZone, startDate, planCompletedMeals,
                 planCurrentDay>>
  /\ UNCHANGED notMealVars

\* toggleMealCompletion(meal) of a listed meal
toggleMealCompletion(meal, net) ==
  /\ meal \in todaysMeals
  /\ mail' = NoMail
  /\ UNCHANGED <<today, timeZone, startDate, todaysMeals, planCompletedMeals,
                 planCurrentDay>>
  /\ UNCHANGED notMealVars
  /\ LET todayStr == today
         key == <<meal.meal_type, meal.meal_name>>
     IN  IF key \in completedMeals
           THEN LET r == MealLogDelete(clientId, clientId, todayStr,
                                       meal.meal_type, meal.meal_name, net)
                IN  /\ meal_logs' = r.table
                    /\ lastError' = r.error
                    /\ IF r.error # NoError
                         THEN /\ toast' = "Error"
                              /\ callback' = FALSE
                              /\ UNCHANGED completedMeals
                         ELSE /\ toast' = "Meal unmarked"
                              /\ callback' = TRUE
                              /\ completedMeals' = completedMeals \ {key}
           ELSE /\ Len(meal_logs) < MaxLogs
                /\ LET r == MealLogInsert(clientId, MealLogRow(meal, todayStr), net)
                   IN  /\ meal_logs' = r.table
                       /\ lastError' = r.error
                       /\ IF r.error # NoError
                            THEN /\ toast' = "Error"
                                 /\ callback' = FALSE
                                 /\ UNCHANGED completedMeals
                            ELSE /\ toast' = "Great job!"
                                 /\ callback' = TRUE
                                 /\ completedMeals' = completedMeals \cup {key}

\* ------------------------------------------------------------------------
\* MealLogger (client session)
\* ------------------------------------------------------------------------
\* What the user can put in the Log Meal dialog: a name, one of the types of
\* the select, and the text of the calories field.
MealNameInputs == {"", "Oats"}
LoggedMealTypes == {"breakfast", "lunch"}
CaloriesTexts == {<<>>, <<"2", "5", "0">>}

\* handleLogMeal: the row carries no logged_date, the column's default
\* CURRENT_DATE dates it (taken as the browser's date); the macro fields
\* are left empty.  onMealLogged refreshes the history list only.
handleLogMeal(meal_name, meal_type, caloriesText, net) ==
  /\ mail' = NoMail
  /\ UNCHANGED <<today, timeZone, startDate, todaysMeals, completedMeals,
                 planCompletedMeals, planCurrentDay>>
  /\ UNCHANGED notMealVars
  /\ IF meal_name = "" \/ meal_type = ""
       THEN /\ toast' = "Missing Information"
            /\ lastError' = NoError
            /\ callback' = FALSE
            /\ UNCHANGED meal_logs
       ELSE /\ Len(meal_logs) < MaxLogs
            /\ LET row == [user_id |-> clientId, meal_name |-> meal_name,
                           meal_type |-> meal_type,
                           calories |-> IF caloriesText = <<>> THEN NullNumber
                                        ELSE OrNull(parseInt(caloriesText)),
                           protein_grams |-> NullNumber,
                           logged_date |-> today]
                   r == MealLogInsert(clientId, row, net)
               IN  /\ meal_logs' = r.table
                   /\ lastError' = r.error
                   /\ IF r.error # NoError
                        THEN /\ toast' = "Error"
                             /\ callback' = FALSE
                        ELSE /\ toast' = "Meal Logged!"
                             /\ callback' = TRUE

\* ------------------------------------------------------------------------
\* ClientMealPlans (client session)
\* ------------------------------------------------------------------------
\* format(addDays(new Date(startDate), dayNumber - 1), "yyyy-MM-dd")
mealDate(dayNumber) == FormatOfParsedDate(startDate) + dayNumber - 1

\* fetchCompletedMeals(startDate, durationDays): a failed select is logged
\* to the console only.
fetchCompletedMeals(ok) ==
  /\ IF ok
       THEN planCompletedMeals' =
              {<<meal_logs[i].logged_date, meal_logs[i].meal_type,
                 meal_logs[i].meal_name>> :
                 i \in {j \in DOMAIN meal_logs :
                          /\ MealLogSelectPolicy(clientId, meal_logs[j])
                          /\ meal_logs[j].user_id = clientId
                          /\ meal_logs[j].logged_date >= startDate
                          /\ meal_logs[j].logged_date
                               <= mealDate(AssignedPlanDuration)}}
       ELSE UNCHANGED planCompletedMeals
  /\ lastError' = IF ok THEN NoError ELSE NetworkError
  /\ toast' = NoToast
  /\ mail' = NoMail
  /\ callback' = FALSE
  /\ UNCHANGED <<meal_logs, today, timeZone, startDate, todaysMeals,
                 completedMeals, planCurrentDay>>
  /\ UNCHANGED notMealVars

\* A day tab of the plan
setPlanCurrentDay(day) ==
  /\ day \in 1..AssignedPlanDuration
  /\ day # planCurrentDay
  /\ planCurrentDay' = day
  /\ lastError' = NoError
  /\ toast' = NoToast
  /\ mail' = NoMail
  /\ callback' = FALSE
  /\ UNCHANGED <<meal_logs, today, timeZone, startDate, todaysMeals,
                 completedMeals, planCompletedMeals>>
  /\ UNCHANGED notMealVars

\* toggleMealCompletion(meal, dayNumber, startDate) of a meal of the day shown
togglePlanMealCompletion(meal, net) ==
  /\ meal \in AssignedPlanDays[planCurrentDay].meals
  /\ mail' = NoMail
  /\ callback' = FALSE
  /\ UNCHANGED <<today, timeZone, startDate, todaysMeals, completedMeals,
                 planCurrentDay>>
  /\ UNCHANGED notMealVars
  /\ LET date == mealDate(planCurrentDay)
         key == <<date, meal.meal_type, meal.meal_name>>
     IN  IF key \in planCompletedMeals
           THEN LET r == MealLogDelete(clientId, clientId, date,
                                       meal.meal_type, meal.meal_name, net)
                IN  /\ meal_logs' = r.table
                    /\ lastError' = r.error
                    /\ IF r.error # NoError
                         THEN /\ toast' = "Error"
                              /\ UNCHANGED planCompletedMeals
                         ELSE /\ toast' = "Meal unmarked"
                              /\ planCompletedMeals' = planCompletedMeals \ {key}
           ELSE /\ Len(meal_logs) < MaxLogs
                /\ LET r == MealLogInsert(clientId, MealLogRow(meal, date), net)
                   IN  /\ meal_logs' = r.table
                       /\ lastError' = r.error
                       /\ IF r.error # NoError
                            THEN /\ toast' = "Error"
                                 /\ UNCHANGED planCompletedMeals
                            ELSE /\ toast' = "Great job!"
                                 /\ planCompletedMeals' =
                                      planCompletedMeals \cup {key}

\* Midnight passes in the browser; no component fetches again.
nextDay ==
  /\ today <= MaxDate
  /\ today' = today + 1
  /\ lastError' = NoError
  /\ toast' = NoToast
  /\ mail' = NoMail
  /\ callback' = FALSE
  /\ UNCHANGED <<meal_logs, timeZone, startDate, todaysMeals, completedMeals,
                 planCompletedMeals, planCurrentDay>>
  /\ UNCHANGED notMealVars

\* ------------------------------------------------------------------------
\* public.messages
\* ------------------------------------------------------------------------
\* "Users can view own messages":
\*   using (auth.uid() = sender_id OR auth.uid() = recipient_id)
UsersCanViewOwnMessages(uid, row) ==
  uid = row.sender_id \/ uid = row.recipient_id
\* "Admins can view all messages": using (has_role(auth.uid(), 'admin'))
AdminsCanViewAllMessages(uid, row) == has_role(uid, "admin")
\* "Users can update own received messages": using (auth.uid() = recipient_id)
UsersCanUpdateOwnReceivedMessages(uid, row) == uid = row.recipient_id
\* "Admins can send messages": with check (has_role(auth.uid(), 'admin'))
AdminsCanSendMessages(uid, row) == has_role(uid, "admin")

MessageSelectPolicy(uid, row) ==
  UsersCanViewOwnMessages(uid, row) \/ AdminsCanViewAllMessages(uid, row)

\* ------------------------------------------------------------------------
\* ClientMessages (the chat panel of the client dashboard) and the realtime
\* client of the browser session
\* ------------------------------------------------------------------------
notMsgVars ==
  <<user_roles, apptVars, assignVars, weightVars, planVars, mealVars, rlsVars>>

\* fetchMessages as closed over user id uid, in a session signed in as
\* session, against the table tbl: the messages sent to or by uid that the
\* session may read; then the unread ones among those received are marked
\* read.
VisibleMessages(tbl, session, uid) ==
  {i \in DOMAIN tbl :
     /\ MessageSelectPolicy(session, tbl[i])
     /\ (tbl[i].recipient_id = uid \/ tbl[i].sender_id = uid)}

MarkedRead(tbl, session, uid) ==
  [i \in DOMAIN tbl |->
     IF /\ i \in VisibleMessages(tbl, session, uid)
        /\ ~tbl[i].read
        /\ tbl[i].sender_id # uid
        /\ UsersCanUpdateOwnReceivedMessages(session, tbl[i])
       THEN [tbl[i] EXCEPT !.read = TRUE]
     ELSE tbl[i]]

\* The state fetchMessages leaves; a failed select is logged to the console.
FetchedMessages(ok, tbl, uid) ==
  IF ok /\ user # NULL THEN VisibleMessages(tbl, user, uid) ELSE messagesList
MessagesAfterFetch(ok, tbl, uid) ==
  IF ok /\ user # NULL THEN MarkedRead(tbl, user, uid) ELSE tbl

\* supabase.channel('client-messages').on(...).subscribe(): the realtime
\* client registers a channel for the topic with the filter
\* recipient_id=eq.<user id>.
NewChannel(uid) == [topic |-> "client-messages", recipient_id |-> uid]

\* The cleanup the effect hands to React.  subscribeToMessages returns
\* () => supabase.removeChannel(channel), and the effect calls
\* subscribeToMessages() without returning that value.
EffectCleanupRemovesChannel == FALSE

\* What the effect's cleanup leaves of the channels when it runs.
ChannelsAfterCleanup ==
  IF EffectCleanupRemovesChannel /\ channels # <<>>
    THEN SubSeq(channels, 1, Len(channels) - 1)
  ELSE channels

\* useEffect([user]) body: if (user) { fetchMessages(); subscribeToMessages() }
RunUserEffect(uid, chans, ok) ==
  /\ IF uid # NULL
       THEN /\ Len(chans) < MaxChannels
            /\ channels' = Append(chans, NewChannel(uid))
            /\ messagesList' = FetchedMessages(ok, messages, uid)
            /\ messages' = MessagesAfterFetch(ok, messages, uid)
            /\ lastError' = IF ok THEN NoError ELSE NetworkError
       ELSE /\ channels' = chans
            /\ lastError' = NoError
            /\ UNCHANGED <<messagesList, messages>>
  /\ toast' = NoToast
  /\ mail' = NoMail
  /\ callback' = FALSE

\* The dashboard renders the panel.
mountMessages(ok) ==
  /\ ~mounted
  /\ mounted' = TRUE
  /\ RunUserEffect(user, channels, ok)
  /\ UNCHANGED user
  /\ UNCHANGED notMsgVars

\* The panel leaves the page: React runs the effect's cleanup and drops the
\* component's state.
unmountMessages ==
  /\ mounted
  /\ mounted' = FALSE
  /\ channels' = ChannelsAfterCleanup
  /\ messagesList' = {}
  /\ lastError' = NoError
  /\ toast' = NoToast
  /\ mail' = NoMail
  /\ callback' = FALSE
  /\ UNCHANGED <<messages, user>>
  /\ UNCHANGED notMsgVars

\* The signed-in user of the session changes (sign-out: NULL, sign-in,
\* another account).  A mounted panel's effect is run again: first the
\* cleanup of the previous run, then the body.
setUser(u, ok) ==
  /\ u # user
  /\ user' = u
  /\ IF mounted
       THEN RunUserEffect(u, ChannelsAfterCleanup, ok)
       ELSE /\ lastError' = NoError
            /\ toast' = NoToast
            /\ mail' = NoMail
            /\ callback' = FALSE
            /\ UNCHANGED <<channels, messagesList, messages>>
  /\ UNCHANGED mounted
  /\ UNCHANGED notMsgVars

\* The nutritionist sends a message to a client (ClientProfiles).  Every
\* registered channel whose filter matches the new row runs its callback:
\* fetchMessages() as closed over the user the channel was opened for.
Notified(chans, row) ==
  {i \in DOMAIN chans : chans[i].recipient_id = row.recipient_id}

handleSendMessage(recipient, ok) ==
  /\ Len(messages) < MaxMessages
  /\ LET row == [sender_id |-> adminId, recipient_id |-> recipient,
                 read |-> FALSE]
         stored == Append(messages, row)
         fetched == Notified(channels, row) # {}
     IN  /\ AdminsCanSendMessages(adminId, row)
         /\ messages' = IF fetched THEN MessagesAfterFetch(ok, stored, recipient)
                        ELSE stored
         /\ messagesList' = IF fetched /\ mounted
                              THEN FetchedMessages(ok, stored, recipient)
                            ELSE messagesList
         /\ lastError' = IF fetched /\ ~ok THEN NetworkError ELSE NoError
  /\ toast' = "Message sent"
  /\ mail' = NoMail
  /\ callback' = FALSE
  /\ UNCHANGED <<user, mounted, channels>>
  /\ UNCHANGED notMsgVars

\* ------------------------------------------------------------------------
\* Direct requests with a record of what they returned or wrote: any
\* signed-in user can send any query on the tables with their own token.
\* touched collects the owners of the rows a request returned, and of the
\* old and new versions of the rows it wrote or deleted.
\* ------------------------------------------------------------------------
\* The policies are predicates of one row, so rows do not interact:
\* appointments and weight_history hold one row, meal_logs up to two.
RowIds == {1}
MealLogRowIds == {1, 2}

Request(u, owners) ==
  /\ actor' = u
  /\ actorIsAdmin' = has_role(u, "admin")
  /\ touched' = owners
  /\ toast' = NoToast
  /\ mail' = NoMail
  /\ callback' = FALSE

RlsUiUnchanged ==
  UNCHANGED <<listAppointments, selectedAppointment, rescheduleDialogOpen,
              bookingOpen, adminAppointments, adminSelected, assignVars,
              profiles, showOnboarding, step, data, targetWeight,
              weightHistory, trendAnalysis, addDialogOpen, achieveVars,
              planVars, today,
              timeZone, startDate, todaysMeals, completedMeals,
              planCompletedMeals, planCurrentDay, msgVars>>

\* insert into user_roles (user_id, role)
RequestInsertRole(u, target, role) ==
  /\ IF UsersCanInsertOwnRole(u, [user_id |-> target, role |-> role])
       THEN /\ user_roles' = user_roles \cup {[user_id |-> target, role |-> role]}
            /\ lastError' = NoError
       ELSE /\ UNCHANGED user_roles
            /\ lastError' = "row-level security"
  /\ Request(u, {})
  /\ UNCHANGED <<appointments, meal_logs, weight_history>>
  /\ RlsUiUnchanged

\* select * from appointments
RequestSelectAppointments(u) ==
  /\ Request(u, {appointments[i].client_id :
                   i \in AppointmentSelect(appointments, u)})
  /\ lastError' = NoError
  /\ UNCHANGED <<user_roles, appointments, meal_logs, weight_history>>
  /\ RlsUiUnchanged

\* insert into appointments, for any owner
RequestInsertAppointment(u, owner) ==
  /\ DOMAIN appointments # ApptIds
  /\ LET row == [client_id |-> owner, appointment_date |-> today,
                 appointment_time |-> "09:00", status |-> "pending"]
         r == AppointmentInsert(u, row)
     IN  /\ appointments' = r.table
         /\ lastError' = r.error
         /\ Request(u, IF r.error = NoError THEN {owner} ELSE {})
  /\ UNCHANGED <<user_roles, meal_logs, weight_history>>
  /\ RlsUiUnchanged

\* update appointments set ... where id = ...
RequestUpdateAppointment(u, id, patch) ==
  /\ LET r == AppointmentUpdate(u, {id}, patch)
     IN  /\ appointments' = r.table
         /\ lastError' = r.error
         /\ Request(u, {appointments[i].client_id : i \in r.matched}
                         \cup {r.table[i].client_id : i \in r.matched})
  /\ UNCHANGED <<user_roles, meal_logs, weight_history>>
  /\ RlsUiUnchanged

\* delete from appointments where id = ...
RequestDeleteAppointment(u, id) ==
  /\ LET r == AppointmentDelete(u, {id})
     IN  /\ appointments' = r.table
         /\ lastError' = r.error
         /\ Request(u, {appointments[i].client_id : i \in r.matched})
  /\ UNCHANGED <<user_roles, meal_logs, weight_history>>
  /\ RlsUiUnchanged

\* Removal of the rows at the positions in idx
RECURSIVE WithoutRows(_, _)
WithoutRows(tbl, idx) ==
  IF tbl = <<>> THEN <<>>
  ELSE LET n == Len(tbl)
           front == WithoutRows(SubSeq(tbl, 1, n - 1), idx)
       IN  IF n \in idx THEN front ELSE Append(front, tbl[n])

\* select * from meal_logs
RequestSelectMealLogs(u) ==
  /\ Request(u, {meal_logs[i].user_id :
                   i \in {j \in DOMAIN meal_logs :
                            MealLogSelectPolicy(u, meal_logs[j])}})
  /\ lastError' = NoError
  /\ UNCHANGED <<user_roles, appointments, meal_logs, weight_history>>
  /\ RlsUiUnchanged

\* insert into meal_logs, for any owner
RequestInsertMealLog(u, owner) ==
  /\ DOMAIN meal_logs # MealLogRowIds
  /\ LET row == [MealLogRow(Oats, today) EXCEPT !.user_id = owner]
         r == MealLogInsert(u, row, TRUE)
     IN  /\ meal_logs' = r.table
         /\ lastError' = r.error
         /\ Request(u, IF r.error = NoError THEN {owner} ELSE {})
  /\ UNCHANGED <<user_roles, appointments, weight_history>>
  /\ RlsUiUnchanged

\* update meal_logs set user_id = ... where id = ... (the policy has no WITH
\* CHECK clause: its USING expression is applied to the new row too)
RequestUpdateMealLog(u, i, owner) ==
  /\ i \in DOMAIN meal_logs
  /\ LET old == meal_logs[i]
         new == [old EXCEPT !.user_id = owner]
         matched == MealLogSelectPolicy(u, old) /\ UsersCanUpdateOwnMealLogs(u, old)
         allowed == UsersCanUpdateOwnMealLogs(u, new)
     IN  IF matched /\ allowed
           THEN /\ meal_logs' = [meal_logs EXCEPT ![i] = new]
                /\ lastError' = NoError
                /\ Request(u, {old.user_id, new.user_id})
         ELSE /\ UNCHANGED meal_logs
              /\ lastError' = IF matched THEN "row-level security" ELSE NoError
              /\ Request(u, {})
  /\ UNCHANGED <<user_roles, appointments, weight_history>>
  /\ RlsUiUnchanged

\* delete from meal_logs where id = ...
RequestDeleteMealLog(u, i) ==
  /\ i \in DOMAIN meal_logs
  /\ LET matched == /\ MealLogSelectPolicy(u, meal_logs[i])
                    /\ UsersCanDeleteOwnMealLogs(u, meal_logs[i])
     IN  /\ meal_logs' = IF matched THEN WithoutRows(meal_logs, {i})
                         ELSE meal_logs
         /\ Request(u, IF matched THEN {meal_logs[i].user_id} ELSE {})
  /\ lastError' = NoError
  /\ UNCHANGED <<user_roles, appointments, weight_history>>
  /\ RlsUiUnchanged

\* select * from weight_history
RequestSelectWeightHistory(u) ==
  /\ Request(u, {weight_history[i].user_id :
                   i \in {j \in DOMAIN weight_history :
                            WeightSelectPolicy(u, weight_history[j])}})
  /\ lastError' = NoError
  /\ UNCHANGED <<user_roles, appointments, meal_logs, weight_history>>
  /\ RlsUiUnchanged

\* insert into weight_history, for any owner
RequestInsertWeight(u, owner, weight_kg) ==
  /\ DOMAIN weight_history # RowIds
  /\ LET row == [user_id |-> owner, weight_kg |-> weight_kg,
                 recorded_date |-> today]
         r == WeightInsert(u, row, TRUE)
     IN  /\ weight_history' = r.table
         /\ lastError' = r.error
         /\ Request(u, IF r.error = NoError THEN {owner} ELSE {})
  /\ UNCHANGED <<user_roles, appointments, meal_logs>>
  /\ RlsUiUnchanged

\* update or delete on weight_history: the table has no policy for either
\* command, so no row is visible to it.
WeightWritePolicy(uid, row) == FALSE

RequestWriteWeight(u, i) ==
  /\ i \in DOMAIN weight_history
  /\ LET matched == /\ WeightSelectPolicy(u, weight_history[i])
                    /\ WeightWritePolicy(u, weight_history[i])
     IN  /\ weight_history' = IF matched THEN WithoutRows(weight_history, {i})
                              ELSE weight_history
         /\ Request(u, IF matched THEN {weight_history[i].user_id} ELSE {})
  /\ lastError' = NoError
  /\ UNCHANGED <<user_roles, appointments, meal_logs>>
  /\ RlsUiUnchanged

\* ------------------------------------------------------------------------
\* Initial state: the accounts exist with their roles and empty profiles,
\* the tables are empty, the dashboards are freshly loaded
\* ------------------------------------------------------------------------
InitRoles ==
  {[user_id |-> u, role |-> "client"] : u \in Clients}
    \cup {[user_id |-> a, role |-> "admin"] : a \in Admins}

\* The row handle_new_user() creates; onboarding_completed defaults to false.
NewProfile ==
  [age |-> NullNumber, height_cm |-> NullNumber,
   current_weight_kg |-> NullNumber, target_weight_kg |-> NullNumber,
   onboarding_completed |-> FALSE]

InitBase ==
  /\ user_roles = InitRoles
  /\ appointments = <<>>
  /\ lastError = NoError
  /\ toast = NoToast
  /\ mail = NoMail
  /\ listAppointments = <<>>
  /\ selectedAppointment = NoSelection
  /\ rescheduleDialogOpen = FALSE
  /\ bookingOpen = FALSE
  /\ adminAppointments = <<>>
  /\ adminSelected = 0
  /\ callback = FALSE
  /\ client_meal_plans = <<>>
  /\ assignOpen = FALSE
  /\ showOnboarding = FALSE
  /\ step = 0
  /\ data = NoData
  /\ targetWeight = NullNumber
  /\ weightHistory = <<>>
  /\ trendAnalysis = NoTrend
  /\ addDialogOpen = FALSE
  /\ dashboardWeightHistory = <<>>
  /\ badgesStartWeight = NullNumber
  /\ achievements = {}
  /\ meal_plans = <<>>
  /\ meal_plan_days = <<>>
  /\ editorOpen = FALSE
  /\ planId = 0
  /\ title = <<>>
  /\ durationDays = DefaultDuration
  /\ currentDay = 1
  /\ days = <<>>
  /\ meal_logs = <<>>
  /\ today = 1
  /\ todaysMeals = {}
  /\ completedMeals = {}
  /\ planCompletedMeals = {}
  /\ planCurrentDay = 1
  /\ messages = <<>>
  /\ user = clientId
  /\ mounted = FALSE
  /\ channels = <<>>
  /\ messagesList = {}
  /\ actor = NULL
  /\ actorIsAdmin = FALSE
  /\ touched = {}

Init ==
  /\ InitBase
  /\ weight_history = <<>>
  /\ profiles = [u \in Clients |-> NewProfile]
  /\ timeZone = "east"
  /\ startDate = 1

\* ------------------------------------------------------------------------
\* Specification of the appointment workflow: the client's and the
\* nutritionist's sessions, and update requests sent around the interface
\* ------------------------------------------------------------------------
\* What the date and time pickers can hold at a click.
DateInputs == Dates \cup {NoDate}
TimeInputs == TIME_SLOTS \cup {NULL}
\* In the workflow the notification is delivered or its send throws; the
\* other outcomes are explored with the notifying handlers below.
WorkflowMailOutcomes == {"sent", "send throws"}

Next ==
  \/ \E u \in Users, id \in ApptIds, p \in StatusPatches :
       ApiUpdateAppointment(u, id, p)
  \/ \E u \in Users, id \in ApptIds, p \in DatePatches :
       ApiUpdateAppointment(u, id, p)
  \/ \E ok \in BOOLEAN : fetchAppointments(ok)
  \/ \E id \in ApptIds, net, fetchOk \in BOOLEAN :
       handleCancel(id, net, fetchOk)
  \/ \E id \in ApptIds : handleRescheduleOpen(id)
  \/ closeRescheduleDialog
  \/ \E d \in DateInputs, t \in TimeInputs, net, fetchOk \in BOOLEAN,
        outcome \in WorkflowMailOutcomes :
       handleReschedule(d, t, net, outcome, fetchOk)
  \/ openBooking
  \/ \E d \in DateInputs, t \in TimeInputs, net, fetchOk \in BOOLEAN,
        outcome \in WorkflowMailOutcomes :
       handleSubmit(d, t, net, outcome, fetchOk)
  \/ \E ok \in BOOLEAN : adminFetchAppointments(ok)
  \/ \E id \in ApptIds : handleOpenDialog(id)
  \/ closeAdminDialog
  \/ \E id \in ApptIds, net, fetchOk \in BOOLEAN :
       declineAppointment(id, net, fetchOk)
  \/ \E net, fetchOk \in BOOLEAN : confirmAppointment(net, fetchOk)

Spec == Init /\ [][Next]_vars

\* ------------------------------------------------------------------------
\* Properties of the appointment workflow
\* ------------------------------------------------------------------------
\* A step in which user u sends a request that can write appointments: a
\* direct update, or (for the client session) the Cancel and Reschedule
\* handlers.
UpdateStepOf(u) ==
  \/ \E id \in ApptIds, p \in StatusPatches : ApiUpdateAppointment(u, id, p)
  \/ \E id \in ApptIds, p \in DatePatches : ApiUpdateAppointment(u, id, p)
  \/ /\ u = clientId
     /\ \/ \E id \in ApptIds, net, fetchOk \in BOOLEAN :
             handleCancel(id, net, fetchOk)
        \/ \E d \in DateInputs, t \in TimeInputs, net, fetchOk \in BOOLEAN,
              outcome \in WorkflowMailOutcomes :
             handleReschedule(d, t, net, outcome, fetchOk)

\* C1: once an appointment's stored status is cancelled, no request of its
\* owning client (a user without the admin role) - Cancel, Reschedule or a
\* direct update - changes any of its fields.
C1_CancelledFrozenForClient ==
  [][\A id \in DOMAIN appointments :
       LET row == appointments[id]
       IN  (/\ row.status = "cancelled"
            /\ ~has_role(row.client_id, "admin")
            /\ UpdateStepOf(row.client_id))
           => (id \in DOMAIN appointments' /\ appointments'[id] = row)]_vars

\* The client pressed Cancel or Reschedule on an appointment that the
\* nutritionist had cancelled in the meantime.
C1_Witness ==
  /\ 1 \in DOMAIN appointments
  /\ appointments[1].status = "cancelled"
  /\ appointments[1].client_id = clientId
  /\ toast \in {"Appointment Cancelled", "Appointment Rescheduled"}

\* A step of handleReschedule that ends with its success toast.
RescheduleSucceeds ==
  /\ \E d \in DateInputs, t \in TimeInputs, net, fetchOk \in BOOLEAN,
        outcome \in WorkflowMailOutcomes :
       handleReschedule(d, t, net, outcome, fetchOk)
  /\ toast' = "Appointment Rescheduled"

\* C13: after a client reschedule that reports success the stored status of
\* the rescheduled appointment is pending; and no request of the owning
\* client (a user without the admin role) leaves an appointment confirmed
\* with another date or time than it had before the request.
C13_RescheduleNeedsApprovalAgain ==
  [][/\ RescheduleSucceeds =>
          /\ selectedAppointment.id \in DOMAIN appointments'
          /\ appointments'[selectedAppointment.id].status = "pending"
     /\ \A id \in DOMAIN appointments :
          LET row == appointments[id]
          IN  (/\ ~has_role(row.client_id, "admin")
               /\ UpdateStepOf(row.client_id)
               /\ appointments'[id].status = "confirmed")
              => appointments'[id] = row]_vars

\* C14: when the client presses Cancel on their own appointment whose stored
\* status is pending or confirmed, and the request reaches the backend, the
\* stored status becomes cancelled and the client is shown "Appointment
\* Cancelled".
C14_ClientCancelCancels ==
  [][\A id \in DOMAIN appointments :
       (/\ appointments[id].client_id = clientId
        /\ appointments[id].status \in {"pending", "confirmed"}
        /\ \E fetchOk \in BOOLEAN : handleCancel(id, TRUE, fetchOk))
       => /\ appointments'[id].status = "cancelled"
          /\ toast' = "Appointment Cancelled"]_vars

\* C15: once an appointment's stored status is cancelled, no step of any
\* user - the handlers of either session or a direct update - changes it.
C15_CancelledIsTerminal ==
  [][\A id \in DOMAIN appointments :
       appointments[id].status = "cancelled"
         => /\ id \in DOMAIN appointments'
            /\ appointments'[id].status = "cancelled"]_vars

\* C16: the client is shown "Appointment Cancelled" or "Appointment
\* Rescheduled" only when the handler's update reached a row the client may
\* update; when it matches no such row the client is shown an error.
C16_SuccessToastMeansRowUpdated ==
  [][/\ \A id \in ApptIds :
          (\E net, fetchOk \in BOOLEAN : handleCancel(id, net, fetchOk))
            => IF AppointmentUpdateTargets(clientId, {id}) = {}
                 THEN toast' = "Error"
               ELSE toast' = "Appointment Cancelled"
                      => appointments'[id].status = "cancelled"
     /\ RescheduleSucceeds
          => AppointmentUpdateTargets(clientId, {selectedAppointment.id}) # {}]_vars

\* C17: every client reschedule that updates the appointment and reports
\* success makes an attempt to notify the nutritionist, whether the
\* appointment was pending or confirmed before.
C17_RescheduleNotifiesAdmin ==
  [][(/\ RescheduleSucceeds
      /\ AppointmentUpdateTargets(clientId, {selectedAppointment.id}) # {})
     => mail' # NoMail]_vars

\* C5: every error a backend call returns is shown to the user as a toast.
C5_EveryErrorIsToasted ==
  lastError # NoError => toast = "Error"

\* C7: every stored appointment status is one of pending, confirmed,
\* cancelled, completed, and an update that would store another value is
\* rejected and leaves the table as it was.
StatusesValid ==
  \A id \in DOMAIN appointments : appointments[id].status \in StatusValues

C7_StatusEnumerated ==
  /\ []StatusesValid
  /\ [][\A u \in Users, id \in ApptIds, p \in StatusPatches :
          (p.status \notin StatusValues /\ ApiUpdateAppointment(u, id, p))
          => /\ appointments' = appointments
             /\ AppointmentUpdateTargets(u, {id}) # {}
                  => lastError' # NoError]_vars

\* An update with a status outside the enumeration reached a row and was
\* refused by the check constraint.
C7_Witness ==
  /\ lastError = "check constraint"
  /\ appointments # <<>>

\* ------------------------------------------------------------------------
\* Specification of the handlers that notify by e-mail after their write:
\* booking, rescheduling (with what leads to a confirmed appointment) and
\* assigning a meal plan
\* ------------------------------------------------------------------------
ClientInputs == Clients \cup {""}

NextNotify ==
  \/ openBooking
  \/ \E d \in DateInputs, t \in TimeInputs, net, fetchOk \in BOOLEAN,
        outcome \in MailOutcomes :
       handleSubmit(d, t, net, outcome, fetchOk)
  \/ \E ok \in BOOLEAN : fetchAppointments(ok)
  \/ \E id \in ApptIds : handleRescheduleOpen(id)
  \/ closeRescheduleDialog
  \/ \E d \in DateInputs, t \in TimeInputs, net, fetchOk \in BOOLEAN,
        outcome \in MailOutcomes :
       handleReschedule(d, t, net, outcome, fetchOk)
  \/ \E ok \in BOOLEAN : adminFetchAppointments(ok)
  \/ \E id \in ApptIds : handleOpenDialog(id)
  \/ \E net, fetchOk \in BOOLEAN : confirmAppointment(net, fetchOk)
  \/ openAssign
  \/ \E c \in ClientInputs, net \in BOOLEAN, outcome \in MailOutcomes :
       handleAssign(c, net, outcome)

SpecNotify == Init /\ [][NextNotify]_vars

\* mail is set by a handler only after its primary write succeeded, so
\* mail # NoMail marks the states right after such a handler.
\* C3: when the primary write of handleSubmit, handleReschedule or
\* handleAssign succeeds, then whatever happens to the recipient lookup and
\* the e-mail, the write stays stored and the handler shows its success
\* toast, closes its dialog and runs its success/refresh callback.
C3_SecondaryFailureSwallowed ==
  mail # NoMail =>
    /\ callback
    /\ \/ /\ toast = "Appointment Requested"
          /\ ~bookingOpen
          /\ appointments # <<>>
       \/ /\ toast = "Appointment Rescheduled"
          /\ ~rescheduleDialogOpen
          /\ selectedAppointment = NoSelection
       \/ /\ toast = "Success"
          /\ ~assignOpen
          /\ client_meal_plans # <<>>

\* A write went through while its notification failed.
C3_Witness ==
  /\ mail = "failed"
  /\ toast \in {"Appointment Requested", "Appointment Rescheduled",
                 "Success"}
  /\ callback

\* ------------------------------------------------------------------------
\* Specification of the weight journey: onboarding, the weight dialog and
\* the trend shown for the fetched history
\* ------------------------------------------------------------------------
\* Dates picked in the Log Weight dialog: the same day twice, or two days.
RecordDateInputs == {1, 2}

NextWeight ==
  \/ \E ok \in BOOLEAN : fetchProfile(ok)
  \/ \E text \in AgeTexts : setData("age", text)
  \/ \E text \in HeightTexts : setData("height_cm", text)
  \/ \E text \in WeightTexts : setData("current_weight_kg", text)
  \/ \E text \in TargetTexts : setData("target_weight_kg", text)
  \/ handleBack
  \/ \E profileNet, weightNet, fetchOk \in BOOLEAN :
       handleNext(profileNet, weightNet, fetchOk)
  \/ \E ok \in BOOLEAN : fetchWeightHistory(ok)
  \/ openAddDialog
  \/ \E text \in WeightTexts, d \in RecordDateInputs, net, fetchOk \in BOOLEAN :
       handleAddWeight(text, d, net, fetchOk)

SpecWeight == Init /\ [][NextWeight]_vars

\* ------------------------------------------------------------------------
\* Specification of the trend: any stored history of the client and any
\* target, fetched and shown by WeightJourneyGraph
\* ------------------------------------------------------------------------
RecordedWeights == {650, 705, 820}
\* record dates: two days in a row and one more than a week later
RecordDates == {1, 2, 9}
WeightRecords ==
  [user_id : {clientId}, weight_kg : RecordedWeights,
   recorded_date : RecordDates]
TargetWeights == {NullNumber, 650}

InitTrend ==
  /\ InitBase
  /\ timeZone = "east"
  /\ startDate = 1
  /\ weight_history \in UNION {[1..n -> WeightRecords] : n \in 0..MaxRecords}
  /\ \E t \in TargetWeights :
       profiles = [u \in Clients |->
                     [NewProfile EXCEPT !.target_weight_kg = t,
                                        !.onboarding_completed = TRUE]]

NextTrend ==
  \/ \E ok \in BOOLEAN : fetchProfile(ok)
  \/ \E ok \in BOOLEAN : fetchWeightHistory(ok)

SpecTrend == InitTrend /\ [][NextTrend]_vars

\* C2: every weight_history row, whichever path wrote it, has weight_kg > 0.
C2_WeightEntriesPositive ==
  \A i \in DOMAIN weight_history : weight_history[i].weight_kg > 0

\* C18: whenever the client's profile has onboarding_completed = true, a
\* weight record of the client is stored (the initial weight that
\* handleComplete inserts after the profile update is one).
C18_OnboardingAtomic ==
  profiles[clientId].onboarding_completed
    => \E i \in DOMAIN weight_history : weight_history[i].user_id = clientId

\* A click in the onboarding wizard: Next / Let's Go, or Back.
WizardClick ==
  \/ \E profileNet, weightNet, fetchOk \in BOOLEAN :
       handleNext(profileNet, weightNet, fetchOk)
  \/ handleBack
AllFilledIn == \A f \in DOMAIN data : data[f] # NullNumber

\* C19: a click in the wizard sends the profile update and the weight insert
\* (it changes a table or gets an error back) only on the last step with
\* age, height, current weight and target weight all filled in; Next on the
\* last step with a field missing shows "Missing Information", writes
\* nothing and stays on that step.
C19_WritesOnlyFromLastStepWhenFilled ==
  [][WizardClick =>
       /\ (\/ profiles' # profiles
           \/ weight_history' # weight_history
           \/ lastError' # NoError)
            => (step = LastStep /\ AllFilledIn)
       /\ (step = LastStep /\ ~AllFilledIn /\ step' >= step)
            => /\ toast' = "Missing Information"
               /\ step' = step
               /\ UNCHANGED <<profiles, weight_history, showOnboarding>>]_vars

\* Next was pressed on the last step with some fields filled in and the
\* target weight missing.
C19_Witness ==
  /\ showOnboarding
  /\ step = LastStep
  /\ toast = "Missing Information"
  /\ data.age # NullNumber
  /\ data.target_weight_kg = NullNumber

\* C10: the weekly rate shown is (last weight - first weight) divided by the
\* weeks between the first and the last record date, counted as at least one
\* day; the weeks to target, when shown, are |current - target| / |rate|;
\* and the whole result is what the first and last record alone give.
C10_TrendIsTwoPointLinear ==
  Len(weightHistory) >= 2 =>
    LET first == weightHistory[1]
        last == weightHistory[Len(weightHistory)]
        elapsedDays == IF last.recorded_date - first.recorded_date < 1 THEN 1
                       ELSE last.recorded_date - first.recorded_date
        rate == trendAnalysis.avgWeeklyChange
        weeks == trendAnalysis.weeksToTarget
    IN  /\ rate.den > 0
        /\ rate.num * elapsedDays = 7 * (last.weight_kg - first.weight_kg) * rate.den
        /\ weeks # NullFraction =>
             /\ weeks.den > 0
             /\ weeks.num * Abs(rate.num)
                  = Abs(last.weight_kg - targetWeight) * rate.den * weeks.den
        /\ trendAnalysis = calculateTrendAnalysis(<<first, last>>, targetWeight)

\* A history of three records whose middle one differs from both ends, with
\* a projection shown.
C10_Witness ==
  /\ Len(weightHistory) = 3
  /\ weightHistory[2].weight_kg # weightHistory[1].weight_kg
  /\ weightHistory[2].weight_kg # weightHistory[3].weight_kg
  /\ trendAnalysis.weeksToTarget # NullFraction

\* ------------------------------------------------------------------------
\* Specification of the achievements: histories of the client long enough
\* for every threshold, fetched by the dashboard and shown as badges
\* ------------------------------------------------------------------------
HistoryLengths == {0, 1, 2, 3, 7, 10, 30, 50}
\* How many days before today the record before the j latest ones is dated:
\* one record a day up to today, one a day up to yesterday, or records
\* that are one day further apart each time.
LogSpacings == {"daily", "daily until yesterday", "widening"}
DaysBeforeToday(spacing, j) ==
  CASE spacing = "daily" -> j
    [] spacing = "daily until yesterday" -> j + 1
    [] spacing = "widening" -> (j * (j + 1)) \div 2
FirstWeights == {700}
LastWeights == {700, 695, 650, 600, 550}
ProfileWeights == {NullNumber, 705}
LoggedHistory(n, spacing, first, last) ==
  [i \in 1..n |->
     [user_id |-> clientId,
      weight_kg |-> IF i = n THEN last ELSE first,
      recorded_date |-> today - DaysBeforeToday(spacing, n - i)]]

InitAchieve ==
  /\ InitBase
  /\ timeZone \in TimeZones
  /\ startDate = 1
  /\ \E n \in HistoryLengths, spacing \in LogSpacings,
        first \in FirstWeights, last \in LastWeights :
       weight_history = LoggedHistory(n, spacing, first, last)
  /\ \E w \in ProfileWeights :
       profiles = [u \in Clients |->
                     [NewProfile EXCEPT !.current_weight_kg = w,
                                        !.onboarding_completed = TRUE]]

NextAchieve ==
  \/ \E ok \in BOOLEAN : fetchProfile(ok)
  \/ \E ok \in BOOLEAN : dashboardFetchWeightHistory(ok)

SpecAchieve == InitAchieve /\ [][NextAchieve]_vars

Unlocked(id) == [id |-> id, unlocked |-> TRUE] \in achievements
WeightMilestones ==
  (1 :> "1kg-milestone") @@ (5 :> "5kg-milestone")
    @@ (10 :> "10kg-milestone") @@ (15 :> "15kg-milestone")
LogMilestones == (1 :> "first-log") @@ (10 :> "10-logs") @@ (50 :> "50-logs")
StreakMilestones ==
  (3 :> "3-day-streak") @@ (7 :> "7-day-streak") @@ (30 :> "30-day-streak")
    @@ (100 :> "100-day-streak")

\* The logging streak of a history: how many days in a row, today and the
\* days before it, have a record.
RECURSIVE DaysInARowFrom(_, _)
DaysInARowFrom(history, n) ==
  IF \E i \in DOMAIN history : history[i].recorded_date = today - n
    THEN DaysInARowFrom(history, n + 1)
  ELSE n
LoggingStreak(history) == DaysInARowFrom(history, 0)

\* C11: for the history and start weight the badges were given, a weight
\* milestone of k kg is unlocked exactly when |current - start| >= k, a
\* log-count badge exactly when the number of records reaches its threshold,
\* and a streak badge exactly when the logging streak reaches its threshold.
C11_ThresholdsOnTotals ==
  LET history == dashboardWeightHistory
      current == history[Len(history)].weight_kg
      start == IF badgesStartWeight # NullNumber THEN badgesStartWeight
               ELSE history[1].weight_kg
  IN  /\ \A k \in DOMAIN LogMilestones :
           Unlocked(LogMilestones[k]) <=> Len(history) >= k
      /\ \A k \in DOMAIN WeightMilestones :
           Unlocked(WeightMilestones[k])
             <=> (Len(history) > 0 /\ Abs(current - start) >= 10 * k)
      /\ \A k \in DOMAIN StreakMilestones :
           Unlocked(StreakMilestones[k]) <=> LoggingStreak(history) >= k

\* ------------------------------------------------------------------------
\* Specification of the meal plan editor
\* ------------------------------------------------------------------------
NextPlan ==
  \/ openNewPlan
  \/ \E id \in PlanIds, loaded \in {"none", "plan", "all"} :
       openEditPlan(id, loaded)
  \/ closeEditor
  \/ \E text \in TitleTexts : setTitle(text)
  \/ \E n \in DurationOptions : setDurationDays(n)
  \/ \E d \in TabInputs : setCurrentDay(d)
  \/ \E t \in MealTypeInputs : addMeal(t)
  \/ \E i \in 1..MaxMeals : removeMeal(i)
  \/ \E k \in 0..(2 * Len(days) + 2) : handleSave(k)

SpecPlan == Init /\ [][NextPlan]_vars

\* The plan stored under id: its title, duration, and days with their meals
PlanView(plans, dayRows, id) ==
  [stored |-> id \in DOMAIN plans,
   title |-> IF id \in DOMAIN plans THEN plans[id].title ELSE <<>>,
   duration_days |-> IF id \in DOMAIN plans THEN plans[id].duration_days ELSE 0,
   days |-> LET own == SelectSeq(dayRows, LAMBDA d : d.meal_plan_id = id)
            IN  [i \in DOMAIN own |->
                   [day_number |-> own[i].day_number, meals |-> own[i].meals]]]

\* What the editor holds
EditorPlan ==
  [stored |-> TRUE, title |-> title, duration_days |-> durationDays,
   days |-> days]

\* C4: when handleSave finishes, in success or at any failing request, the
\* stored plan is what the editor held or what was stored before.
C4_SaveIsAtomic ==
  [][\A k \in 0..(2 * Len(days) + 2) :
       handleSave(k) =>
         PlanView(meal_plans', meal_plan_days', SavedPlanId)
           \in {EditorPlan, PlanView(meal_plans, meal_plan_days, SavedPlanId)}]_vars

\* C21: whenever the editor is open (its requests, modelled as whole steps,
\* are never in flight in a state), days has exactly durationDays entries
\* numbered 1..durationDays and the selected day is within 1..durationDays.
C21_EditorDaysMatchDuration ==
  editorOpen =>
    /\ Len(days) = durationDays
    /\ \A i \in DOMAIN days : days[i].day_number = i
    /\ currentDay \in 1..durationDays

\* ------------------------------------------------------------------------
\* Specification of plan completion: the two components that mark meals
\* ------------------------------------------------------------------------
InitMeals ==
  /\ InitBase
  /\ weight_history = <<>>
  /\ profiles = [u \in Clients |-> NewProfile]
  /\ timeZone \in TimeZones
  /\ startDate \in Dates

NextMeals ==
  \/ \E ok \in BOOLEAN : fetchTodaysMealPlan(ok)
  \/ \E meal \in AssignedPlanMeals, net \in BOOLEAN :
       toggleMealCompletion(meal, net)
  \/ \E ok \in BOOLEAN : fetchCompletedMeals(ok)
  \/ \E d \in 1..AssignedPlanDuration : setPlanCurrentDay(d)
  \/ \E meal \in AssignedPlanMeals, net \in BOOLEAN :
       togglePlanMealCompletion(meal, net)
  \/ nextDay

SpecMeals == InitMeals /\ [][NextMeals]_vars

\* A step that marks meal in TodaysMealPlan, or in ClientMealPlans
MarksToday(meal) ==
  /\ <<meal.meal_type, meal.meal_name>> \notin completedMeals
  /\ \E net \in BOOLEAN : toggleMealCompletion(meal, net)
MarksInPlan(meal) ==
  /\ <<mealDate(planCurrentDay), meal.meal_type, meal.meal_name>>
       \notin planCompletedMeals
  /\ \E net \in BOOLEAN : togglePlanMealCompletion(meal, net)

\* The log expected for meal on date: the current user's, with the meal's
\* type, name, calories and macros
ExpectedLog(meal, date) ==
  [user_id |-> clientId, logged_date |-> date, meal_type |-> meal.meal_type,
   meal_name |-> meal.meal_name, calories |-> meal.calories,
   protein_grams |-> meal.protein_grams]

\* C8 as stated: marking a plan meal, when its insert succeeds, adds exactly
\* one log of the current user, dated today, with the meal's type, name,
\* calories and macros, and changes no other.
C8_MarkAddsOneLogForToday ==
  [][\A meal \in AssignedPlanMeals :
       ((MarksToday(meal) \/ MarksInPlan(meal)) /\ lastError' = NoError)
         => meal_logs' = Append(meal_logs, ExpectedLog(meal, today))]_vars

\* C8: marking a plan meal adds, when the insert succeeds, exactly one log
\* of the current user with the meal's type, name, calories and macros and
\* changes no other, and adds nothing when the insert fails.  The log is
\* dated today by TodaysMealPlan; ClientMealPlans dates it with the day of
\* the plan day shown: today moved by as many days as the plan day shown is
\* away from the plan's current day.
C8_MarkAddsOneLogForItsDay ==
  [][\A meal \in AssignedPlanMeals :
       /\ MarksToday(meal) =>
            meal_logs' = IF lastError' = NoError
                           THEN Append(meal_logs, ExpectedLog(meal, today))
                         ELSE meal_logs
       /\ MarksInPlan(meal) =>
            meal_logs' =
              IF lastError' = NoError
                THEN Append(meal_logs,
                            ExpectedLog(meal, today + planCurrentDay
                                                - currentDayNumber))
              ELSE meal_logs]_vars

\* A meal of a plan day that is not today was just marked in ClientMealPlans.
C8_Witness ==
  /\ toast = "Great job!"
  /\ ~callback
  /\ meal_logs # <<>>
  /\ meal_logs[Len(meal_logs)].logged_date # today

\* ------------------------------------------------------------------------
\* Specification of today's plan next to the meal logger
\* ------------------------------------------------------------------------
NextMealLog ==
  \/ \E ok \in BOOLEAN : fetchTodaysMealPlan(ok)
  \/ \E meal \in AssignedPlanMeals, net \in BOOLEAN :
       toggleMealCompletion(meal, net)
  \/ \E n \in MealNameInputs, t \in LoggedMealTypes, c \in CaloriesTexts,
        net \in BOOLEAN : handleLogMeal(n, t, c, net)

SpecMealLog == InitMeals /\ [][NextMealLog]_vars

\* A step that unmarks meal in TodaysMealPlan
UnmarksToday(meal) ==
  /\ <<meal.meal_type, meal.meal_name>> \in completedMeals
  /\ \E net \in BOOLEAN : toggleMealCompletion(meal, net)

\* C20: unmarking a plan meal, when its delete succeeds, removes exactly the
\* one log that marking the meal created and leaves every other log, a
\* manually logged meal of the same type and name on that day included, so
\* that marking and then unmarking restores the logs.
C20_UnmarkRemovesOnlyTheMarkedLog ==
  [][\A meal \in AssignedPlanMeals :
       (UnmarksToday(meal) /\ lastError' = NoError)
         => \E i \in DOMAIN meal_logs :
              /\ meal_logs[i] = MealLogRow(meal, today)
              /\ meal_logs' = WithoutRows(meal_logs, {i})]_vars

\* ------------------------------------------------------------------------
\* Specification of the chat panel's realtime subscription
\* ------------------------------------------------------------------------
UserInputs == Clients \cup {NULL}

NextMsg ==
  \/ \E ok \in BOOLEAN : mountMessages(ok)
  \/ unmountMessages
  \/ \E u \in UserInputs, ok \in BOOLEAN : setUser(u, ok)
  \/ \E c \in Clients, ok \in BOOLEAN : handleSendMessage(c, ok)

SpecMsg == Init /\ [][NextMsg]_vars

\* C9: the session has at most one realtime channel, none once the panel is
\* unmounted, and none opened for another user than the one signed in.
C9_OneChannelRemovedOnLeave ==
  /\ Len(channels) <= 1
  /\ ~mounted => channels = <<>>
  /\ \A i \in DOMAIN channels : channels[i].recipient_id = user

\* ------------------------------------------------------------------------
\* Specification of row-level security: direct requests of every user on
\* appointments, meal logs and weight history, and on their own role
\* ------------------------------------------------------------------------
WeightInputs == {705}

NextRLS ==
  \/ \E u, target \in Users : RequestInsertRole(u, target, "admin")
  \/ \E u \in Users : RequestSelectAppointments(u)
  \/ \E u, owner \in Users : RequestInsertAppointment(u, owner)
  \/ \E u \in Users, id \in ApptIds, p \in StatusPatches :
       RequestUpdateAppointment(u, id, p)
  \/ \E u \in Users, id \in ApptIds, p \in OwnerPatches :
       RequestUpdateAppointment(u, id, p)
  \/ \E u \in Users, id \in ApptIds : RequestDeleteAppointment(u, id)
  \/ \E u \in Users : RequestSelectMealLogs(u)
  \/ \E u, owner \in Users : RequestInsertMealLog(u, owner)
  \/ \E u, owner \in Users, i \in MealLogRowIds :
       RequestUpdateMealLog(u, i, owner)
  \/ \E u \in Users, i \in MealLogRowIds : RequestDeleteMealLog(u, i)
  \/ \E u \in Users : RequestSelectWeightHistory(u)
  \/ \E u, owner \in Users, w \in WeightInputs : RequestInsertWeight(u, owner, w)
  \/ \E u \in Users, i \in RowIds : RequestWriteWeight(u, i)

SpecRLS == Init /\ [][NextRLS]_vars

\* C6: every appointment, meal log and weight record that a request of a
\* user without the admin role returns, changes or deletes is owned by that
\* user, before and after the request.
C6_NonAdminTouchesOnlyOwnRows ==
  (actor # NULL /\ ~actorIsAdmin) => touched \subseteq {actor}

\* A user without the admin role got or wrote their own meal log while
\* another user's rows were stored in each of the three tables.
C6_Witness ==
  /\ actor # NULL
  /\ ~actorIsAdmin
  /\ touched = {actor}
  /\ \E i \in DOMAIN meal_logs : meal_logs[i].user_id = actor
  /\ \E i \in DOMAIN appointments : appointments[i].client_id # actor
  /\ \E i \in DOMAIN meal_logs : meal_logs[i].user_id # actor
  /\ \E i \in DOMAIN weight_history : weight_history[i].user_id # actor

\* C12: a user gains the admin role only by a request of a user who holds
\* the admin role already; no request of a user holding only the client
\* role makes has_role(user, 'admin') true.
C12_AdminGrantedOnlyByAdmin ==
  [][\A u \in Users :
       (~has_role(u, "admin") /\ [user_id |-> u, role |-> "admin"] \in user_roles')
         => actorIsAdmin']_vars

====
